---- MODULE Spec2Model ----
(***************************************************************************)
(* Model of the beacon REST handlers of beacon-chain/rpc/eth/beacon:       *)
(* PublishBlockV2, PublishBlindedBlockV2 (JSON and SSZ body) and           *)
(* ProduceBlockV3, with the sync guard, the version dispatcher, the        *)
(* broadcast-validation gate and the calls to the collaborators            *)
(* (Stater.State, ExecuteStateTransition, HighestReceivedBlockSlot,        *)
(* ProposeBeaconBlock, GetBeaconBlock, IsOptimistic).                      *)
(*                                                                         *)
(* Every request is a little process with a program counter; a step of a   *)
(* request is the code between two collaborator calls, so that requests    *)
(* interleave exactly where the Go handlers can be preempted while they    *)
(* read or change node state.                                              *)
(***************************************************************************)
EXTENDS Integers, Sequences, FiniteSets, TLC

VARIABLES
    pc,               \* request -> position of its handler
    req,              \* request -> the HTTP request being served
    idx,              \* request -> index of the next fork schema to try
    blk,              \* request -> the generic signed block built by the dispatcher
    got,              \* request -> the result of GetBeaconBlock (production path)
    hdr,              \* request -> response headers set so far
    calls,            \* request -> log of the collaborator and decoder calls made
    resp,             \* request -> sequence of responses written to the ResponseWriter
    stateStore,       \* roots whose post-state the Stater can return
    highestReceived   \* fork choice: ForkchoiceFetcher.HighestReceivedBlockSlot()

vars == <<pc, req, idx, blk, got, hdr, calls, resp, stateStore, highestReceived>>

nodeVars == <<stateStore, highestReceived>>

----------------------------------------------------------------------------
(* Bounds *)

\* number of keys a JSON body may lack with respect to a fork's full shape
MaxDropped == 1

\* number of SSZ schemas under which one byte string may decode
MaxAmbiguity == 2

\* number of requests in flight in the concurrent specification
MaxConc == 2

\* the request of the one-request-at-a-time specification
Reqs == {1}

ConcReqs == 1..MaxConc

----------------------------------------------------------------------------
(* HTTP status codes and query parameters *)

StatusOK == 200
StatusBadRequest == 400
StatusInternalServerError == 500
StatusServiceUnavailable == 503

broadcastValidationQueryParam == "broadcast_validation"
broadcastValidationConsensus == "consensus"
broadcastValidationConsensusAndEquivocation == "consensus_and_equivocation"

\* values of the broadcast_validation parameter ("" is the absent parameter)
PolicyParams == {"", broadcastValidationConsensus,
                 broadcastValidationConsensusAndEquivocation, "Consensus"}

----------------------------------------------------------------------------
(* Fork schemas *)

Variants == {"Phase0", "Altair", "Bellatrix", "BlindedBellatrix",
             "Capella", "BlindedCapella", "Deneb", "BlindedDeneb"}

FullOrder_Ascending == <<"Phase0", "Altair", "Bellatrix", "Capella", "Deneb">>

\* the order in which publishBlockV2 and publishBlockV2SSZ try the schemas
FullOrder == <<"Deneb", "Capella", "Bellatrix", "Altair", "Phase0">>

\* the order in which publishBlindedBlockV2 and publishBlindedBlockV2SSZ try them
BlindedOrder == <<"BlindedDeneb", "BlindedCapella", "BlindedBellatrix", "Altair", "Phase0">>

SchemaOrder(endpoint) == IF endpoint = "blinded_blocks" THEN BlindedOrder ELSE FullOrder

\* JSON keys of the wire structs, flattened (the fields the ToGeneric methods read)
EnvelopeKeys == {"message", "signature"}

KnownKeys(v) ==
    CASE v = "Phase0"           -> EnvelopeKeys
      [] v = "Altair"           -> EnvelopeKeys \cup {"sync_aggregate"}
      [] v = "Bellatrix"        -> EnvelopeKeys \cup {"sync_aggregate", "execution_payload"}
      [] v = "BlindedBellatrix" -> EnvelopeKeys \cup {"sync_aggregate", "execution_payload_header"}
      [] v = "Capella"          -> EnvelopeKeys \cup {"sync_aggregate", "execution_payload",
                                                      "withdrawals", "bls_to_execution_changes"}
      [] v = "BlindedCapella"   -> EnvelopeKeys \cup {"sync_aggregate", "execution_payload_header",
                                                      "withdrawals_root", "bls_to_execution_changes"}
      [] v = "Deneb"            -> {"signed_block", "signed_blob_sidecars"}
      [] v = "BlindedDeneb"     -> {"signed_blinded_block", "signed_blinded_blob_sidecars"}

\* the fields the struct validator demands (every field of the wire structs is required)
RequiredKeys(v) == KnownKeys(v)

----------------------------------------------------------------------------
(* Decimal strings: a string is a sequence of one-character strings *)

DigitValue == [c \in {"0", "1", "2", "3", "4", "5", "6", "7", "8", "9"} |->
                 CASE c = "0" -> 0 [] c = "1" -> 1 [] c = "2" -> 2 [] c = "3" -> 3
                   [] c = "4" -> 4 [] c = "5" -> 5 [] c = "6" -> 6 [] c = "7" -> 7
                   [] c = "8" -> 8 [] c = "9" -> 9]

\* 2^64 - 1 as a decimal string (the model checker's integers are narrower than 64 bits)
MaxUint64Digits == <<"1", "8", "4", "4", "6", "7", "4", "4", "0", "7",
                     "3", "7", "0", "9", "5", "5", "1", "6", "1", "5">>

ParseError == -1

AllDigits(s) == \A i \in 1..Len(s) : s[i] \in DOMAIN DigitValue

RECURSIVE StripZeros(_)
StripZeros(s) ==
    IF Len(s) > 1 /\ Head(s) = "0" THEN StripZeros(Tail(s)) ELSE s

\* a > b for digit strings of the same length
RECURSIVE DigitsGreater(_, _)
DigitsGreater(a, b) ==
    IF a = <<>> THEN FALSE
    ELSE IF DigitValue[Head(a)] # DigitValue[Head(b)]
         THEN DigitValue[Head(a)] > DigitValue[Head(b)]
         ELSE DigitsGreater(Tail(a), Tail(b))

\* the number denoted by the digit string s does not fit in 64 bits
ExceedsUint64(s) ==
    LET t == StripZeros(s)
    IN  \/ Len(t) > Len(MaxUint64Digits)
        \/ Len(t) = Len(MaxUint64Digits) /\ DigitsGreater(t, MaxUint64Digits)

RECURSIVE DigitsValue(_, _)
DigitsValue(s, acc) ==
    IF s = <<>> THEN acc ELSE DigitsValue(Tail(s), acc * 10 + DigitValue[Head(s)])

\* strconv.ParseUint(s, 10, 64): the value, or ParseError (empty string, a
\* character that is not a digit, or a value that does not fit in 64 bits)
ParseUint(s) ==
    IF s = <<>> \/ ~AllDigits(s) \/ ExceedsUint64(s) THEN ParseError
    ELSE DigitsValue(StripZeros(s), 0)

RECURSIVE FormatUint(_)
\* fmt.Sprintf("%d", n) for n >= 0
FormatUint(n) ==
    LET d == CHOOSE c \in DOMAIN DigitValue : DigitValue[c] = n % 10
    IN  IF n < 10 THEN <<d>> ELSE Append(FormatUint(n \div 10), d)

----------------------------------------------------------------------------
(* Hex strings, as hexutil.Decode reads them *)

HexValue == [c \in {"0", "1", "2", "3", "4", "5", "6", "7", "8", "9",
                    "a", "b", "c", "d", "e", "f"} |->
               CASE c = "a" -> 10 [] c = "b" -> 11 [] c = "c" -> 12
                 [] c = "d" -> 13 [] c = "e" -> 14 [] c = "f" -> 15
                 [] OTHER -> DigitValue[c]]

HexError == <<-1>>

\* hexutil.Decode: the bytes, or HexError for an empty string, a missing 0x
\* prefix, an odd number of digits or a character that is not a hex digit
HexDecode(s) ==
    IF Len(s) < 2 \/ SubSeq(s, 1, 2) # <<"0", "x">> THEN HexError
    ELSE LET d == SubSeq(s, 3, Len(s))
         IN  IF Len(d) % 2 # 0 \/ \E i \in 1..Len(d) : d[i] \notin DOMAIN HexValue
             THEN HexError
             ELSE [i \in 1..(Len(d) \div 2) |->
                     16 * HexValue[d[2 * i - 1]] + HexValue[d[2 * i]]]

\* primitives.PointAtInfinity: 0xc0 followed by 95 zero bytes
PointAtInfinity == [i \in 1..96 |-> IF i = 1 THEN 192 ELSE 0]

----------------------------------------------------------------------------
(* Blocks and request bodies *)

\* the root of the genesis block, whose state the node always has
GenesisRoot == "g"

\* internal blocks: a is a child of genesis, c is a child of a
Blocks == {[root |-> "a", parent |-> GenesisRoot, slot |-> 1],
           [root |-> "c", parent |-> "a", slot |-> 2]}

\* the blocks of the concurrent specification: two distinct blocks of one slot
ConcBlocks == {[root |-> "a", parent |-> GenesisRoot, slot |-> 1],
               [root |-> "b", parent |-> GenesisRoot, slot |-> 1]}

\* the JSON encoding of the block fields the handlers look at
WireBlock(b) == [root |-> b.root, parent |-> b.parent, slot |-> FormatUint(b.slot)]

\* JSON blocks: the encodings of Blocks and one block whose slot is not a number
WireBlocks == {WireBlock(b) : b \in Blocks} \cup
              {[root |-> "d", parent |-> GenesisRoot, slot |-> <<"x">>]}

\* key sets of JSON bodies: a fork's full shape, a full shape with a key that
\* no schema has, or a full shape with up to MaxDropped keys missing
JSONKeySets ==
    {KnownKeys(v) : v \in Variants} \cup
    {KnownKeys(v) \cup {"bogus"} : v \in Variants} \cup
    UNION {{KnownKeys(v) \ D : D \in {X \in SUBSET KnownKeys(v) :
                                        Cardinality(X) <= MaxDropped}} : v \in Variants}

NoBlock == [root |-> "", parent |-> "", slot |-> 0]

\* a body: wellFormed and keys describe it as JSON text, ssz is the set of
\* SSZ schemas whose UnmarshalSSZ accepts its bytes
JSONBodies ==
    {[wellFormed |-> TRUE, keys |-> k, ssz |-> {}, block |-> w] :
        k \in JSONKeySets, w \in WireBlocks}

SSZBodies ==
    {[wellFormed |-> FALSE, keys |-> {}, ssz |-> S, block |-> b] :
        S \in {X \in SUBSET Variants : Cardinality(X) <= MaxAmbiguity}, b \in Blocks}

NoBody == [wellFormed |-> FALSE, keys |-> {}, ssz |-> {}, block |-> NoBlock]

\* outcomes of network.SszRequested(r): SSZ asked for, not asked for, or an error
Accepts == {"ssz", "json", "err"}

PublishEndpoints == {"blocks", "blinded_blocks"}

NoParams == [slot |-> <<>>, randao |-> <<>>, graffiti |-> <<>>, skip |-> ""]

PublishRequest(e, a, p, b) ==
    [endpoint |-> e, accept |-> a, policy |-> p, body |-> b, params |-> NoParams]

\* publish requests: JSON bodies sent as JSON, SSZ bodies sent as SSZ, and
\* bodies sent under the other content type
PublishRequests ==
    {PublishRequest(e, a, p, b) :
        e \in PublishEndpoints, a \in {"json", "err"}, p \in PolicyParams, b \in JSONBodies} \cup
    {PublishRequest(e, "ssz", p, b) :
        e \in PublishEndpoints, p \in PolicyParams, b \in SSZBodies} \cup
    {PublishRequest(e, "ssz", p, b) :
        e \in PublishEndpoints, p \in PolicyParams,
        b \in {x \in JSONBodies : \E v \in Variants : x.keys = KnownKeys(v)}} \cup
    {PublishRequest(e, "json", p, b) :
        e \in PublishEndpoints, p \in PolicyParams,
        b \in {x \in SSZBodies : Cardinality(x.ssz) = 1}}

\* query parameters of the production endpoint
SlotParams == {<<>>, <<"2">>, <<"x">>}
HexParams == {<<>>, <<"0", "x">>, <<"0", "x", "a", "b">>, <<"a", "b">>}
SkipParams == {"", "true", "false"}

ProduceRequests ==
    {[endpoint |-> "produce", accept |-> a, policy |-> "", body |-> NoBody,
      params |-> [slot |-> s, randao |-> rr, graffiti |-> g, skip |-> k]] :
        a \in Accepts, s \in SlotParams, rr \in HexParams, g \in HexParams, k \in SkipParams}

Requests == PublishRequests \cup ProduceRequests

\* the requests of the concurrent specification: JSON Phase0 blocks, any policy
ConcRequests ==
    {[endpoint |-> "blocks", accept |-> "json", policy |-> p,
      body |-> [wellFormed |-> TRUE, keys |-> KnownKeys("Phase0"), ssz |-> {},
                block |-> WireBlock(b)],
      params |-> NoParams] :
        p \in {"", broadcastValidationConsensusAndEquivocation}, b \in ConcBlocks}

\* the requests of the dispatch specification: SSZ bodies of block a that exactly
\* one schema of publishBlockV2SSZ decodes, sent to the full-block endpoint
DispatchRequests ==
    {PublishRequest("blocks", "ssz", "",
                    [wellFormed |-> FALSE, keys |-> {}, ssz |-> {v},
                     block |-> [root |-> "a", parent |-> GenesisRoot, slot |-> 1]]) :
        v \in {FullOrder[k] : k \in 1..Len(FullOrder)}}

\* signatures of the hex specification: the 96 bytes of the point at infinity,
\* one byte, no byte, and one byte without the 0x prefix
HexSignatures == {<<"0", "x">> \o [i \in 1..192 |-> IF i = 1 THEN "c" ELSE "0"],
                  <<"0", "x", "a", "b">>, <<"0", "x">>, <<"a", "b">>}

\* the requests of the hex specification: JSON Phase0 blocks a whose signature
\* is spelled out, any endpoint and policy
HexRequests ==
    {PublishRequest(e, "json", p,
                    [wellFormed |-> TRUE, keys |-> KnownKeys("Phase0"), ssz |-> {},
                     block |-> [root |-> "a", parent |-> GenesisRoot, slot |-> <<"1">>,
                                signature |-> sg]]) :
        e \in PublishEndpoints, p \in PolicyParams, sg \in HexSignatures}

NoReq == [endpoint |-> "", accept |-> "", policy |-> "", body |-> NoBody, params |-> NoParams]

NilBlk == [tag |-> "nil", payload |-> "nil", root |-> "", parent |-> "", slot |-> 0]

HexDigits == <<"0", "1", "2", "3", "4", "5", "6", "7", "8", "9", "a", "b", "c", "d", "e", "f">>

\* hexutil.Encode: 0x and two lower-case hex digits for each byte
HexEncode(b) ==
    <<"0", "x">> \o [k \in 1..(2 * Len(b)) |->
                       IF k % 2 = 1 THEN HexDigits[(b[(k + 1) \div 2] \div 16) + 1]
                       ELSE HexDigits[(b[k \div 2] % 16) + 1]]

\* a Go slice: nil (the field is unset) or a list of elements
NilSlice == [isNil |-> TRUE, elems |-> <<>>]
EmptySlice == [isNil |-> FALSE, elems |-> <<>>]

NoGot == [variant |-> "nil", isBlinded |-> FALSE, payloadValue |-> 0,
          proposerSlashings |-> NilSlice, valid |-> FALSE]

\* the two production headers: Eth-Execution-Payload-Blinded and
\* Eth-Execution-Payload-Value, as the strings written
NoHdr == [set |-> FALSE, blinded |-> "", value |-> <<>>]

----------------------------------------------------------------------------
(* Responses and the call log *)

\* a write to the ResponseWriter: the status line and the headers set on w so
\* far (h) leave with the first write of the body
WriteErrorWith(r, h, code, msg) ==
    resp' = [resp EXCEPT ![r] = Append(@, [code |-> code, msg |-> msg, kind |-> "error",
                                           version |-> "", blinded |-> FALSE, data |-> "nil",
                                           headers |-> h])]

\* network.WriteError(w, &DefaultErrorJson{Message, Code}): msg is the chain of
\* message parts, outermost first
WriteError(r, code, msg) == WriteErrorWith(r, hdr[r], code, msg)

\* network.WriteJson(w, &XProduceBlockV3Response{Version, ExecutionPayloadBlinded, Data})
WriteJson(r, h, version, blinded, data) ==
    resp' = [resp EXCEPT ![r] = Append(@, [code |-> StatusOK, msg |-> <<>>, kind |-> "json",
                                           version |-> version, blinded |-> blinded, data |-> data,
                                           headers |-> h])]

\* network.WriteSsz(w, sszResp, fileName)
WriteSsz(r, h, data) ==
    resp' = [resp EXCEPT ![r] = Append(@, [code |-> StatusOK, msg |-> <<>>, kind |-> "ssz",
                                           version |-> "", blinded |-> FALSE, data |-> data,
                                           headers |-> h])]

CallRec(op, arg, res) == [op |-> op, arg |-> arg, res |-> res]

Call(r, op, arg, res) ==
    calls' = [calls EXCEPT ![r] = Append(@, CallRec(op, arg, res))]

Finish(r) == pc' = [pc EXCEPT ![r] = "done"]

Goto(r, l) == pc' = [pc EXCEPT ![r] = l]

\* the status the client sees: the first explicit write, or 200 when the
\* handler returns without writing
Status(r) == IF resp[r] = <<>> THEN StatusOK ELSE resp[r][1].code

----------------------------------------------------------------------------
(* Initial state and the arrival of a request *)

\* node states in which a request may arrive: the genesis state and the states of
\* the blocks received so far (a block is received after its parent)
NodeStates ==
    {[store |-> {GenesisRoot} \cup {b.root : b \in S},
      highest |-> IF S = {} THEN 0 ELSE CHOOSE n \in {b.slot : b \in S} :
                                            \A b \in S : b.slot <= n] :
        S \in {X \in SUBSET Blocks :
                  \A b \in X : b.parent = GenesisRoot \/ \E p \in X : p.root = b.parent}}

InitOver(R, N) ==
    /\ pc = [r \in R |-> "idle"]
    /\ req = [r \in R |-> NoReq]
    /\ idx = [r \in R |-> 1]
    /\ blk = [r \in R |-> NilBlk]
    /\ got = [r \in R |-> NoGot]
    /\ hdr = [r \in R |-> NoHdr]
    /\ calls = [r \in R |-> <<>>]
    /\ resp = [r \in R |-> <<>>]
    /\ \E n \in N : stateStore = n.store /\ highestReceived = n.highest

Init == InitOver(Reqs, NodeStates)

\* the router hands request q to its handler
Begin(r, q) ==
    /\ pc[r] = "idle"
    /\ pc' = [pc EXCEPT ![r] = "checkSync"]
    /\ req' = [req EXCEPT ![r] = q]
    /\ idx' = [idx EXCEPT ![r] = 1]
    /\ blk' = [blk EXCEPT ![r] = NilBlk]
    /\ got' = [got EXCEPT ![r] = NoGot]
    /\ hdr' = [hdr EXCEPT ![r] = NoHdr]
    /\ calls' = [calls EXCEPT ![r] = <<>>]
    /\ resp' = [resp EXCEPT ![r] = <<>>]
    /\ UNCHANGED nodeVars

\* outcomes of helpers.ValidateSyncHTTP
SyncOutcomes == {"synced", "syncing", "error"}

SyncCode_Swapped(o) ==
    IF o = "error" THEN StatusServiceUnavailable ELSE StatusInternalServerError

\* the status checkSync answers with when the node is not ready
SyncCode(o) == IF o = "error" THEN StatusInternalServerError ELSE StatusServiceUnavailable

\* checkSync, and the choice of the JSON or SSZ handler by network.SszRequested
checkSync(r) ==
    /\ pc[r] = "checkSync"
    /\ \E o \in SyncOutcomes :
         /\ Call(r, "ValidateSyncHTTP", "", o)
         /\ IF o = "error"
            THEN /\ WriteError(r, SyncCode(o), <<"Could not check if node is syncing">>)
                 /\ pc' = [pc EXCEPT ![r] = "done"]
            ELSE IF o = "syncing"
            THEN /\ WriteError(r, SyncCode(o),
                               <<"Beacon node is currently syncing and not serving request on that endpoint">>)
                 /\ pc' = [pc EXCEPT ![r] = "done"]
            ELSE /\ resp' = resp
                 /\ pc' = [pc EXCEPT ![r] = IF req[r].endpoint = "produce" THEN "params"
                                            ELSE "readBody"]
    /\ UNCHANGED <<req, idx, blk, got, hdr, nodeVars>>

----------------------------------------------------------------------------
(* The version dispatcher *)

\* the handler PublishBlockV2 / PublishBlindedBlockV2 selects: the SSZ one only
\* when SszRequested says so without an error
IsSSZ(q) == q.accept = "ssz"

\* io.ReadAll(r.Body) at the head of the four publish handlers
readBody(r) ==
    /\ pc[r] = "readBody"
    /\ \E ok \in BOOLEAN :
         /\ Call(r, "ReadAll", "", ok)
         /\ IF ok
            THEN resp' = resp /\ Goto(r, "decode")
            ELSE WriteError(r, StatusInternalServerError, <<"Could not read request body">>)
                 /\ Finish(r)
    /\ UNCHANGED <<req, idx, blk, got, hdr, nodeVars>>

unmarshalStrict_AllowUnknown(body, v) == body.wellFormed

\* unmarshalStrict(body, &v): json.Decoder with DisallowUnknownFields
unmarshalStrict(body, v) == body.wellFormed /\ body.keys \subseteq KnownKeys(v)

\* validate.Struct(v) on the decoded struct: every required field is present
validateStruct(body, v) == RequiredKeys(v) \subseteq body.keys

Matches_NoValidate(body, v) == unmarshalStrict(body, v)

\* the double condition under which a JSON schema is taken:
\* unmarshalStrict(...) == nil and then validate.Struct(...) == nil
Matches(body, v) == unmarshalStrict(body, v) /\ validateStruct(body, v)

ConvError(msg) == [tag |-> "error", payload |-> "nil", root |-> msg, parent |-> "", slot |-> 0]

\* the v1alpha1 struct the ToGeneric method of the wire struct of schema v
\* builds ("block := &eth.X{")
ToGenericPayload(v) ==
    CASE v = "Phase0"           -> "SignedBeaconBlock"
      [] v = "Altair"           -> "SignedBeaconBlockAltair"
      [] v = "Bellatrix"        -> "SignedBeaconBlockBellatrix"
      [] v = "BlindedBellatrix" -> "SignedBlindedBeaconBlockBellatrix"
      [] v = "Capella"          -> "SignedBeaconBlockCapella"
      [] v = "BlindedCapella"   -> "SignedBlindedBeaconBlockCapella"
      [] v = "Deneb"            -> "SignedBeaconBlockAndBlobsDeneb"
      [] v = "BlindedDeneb"     -> "SignedBlindedBeaconBlockAndBlobsDeneb"

ToGenericVariant_BlindedAsFull(v) ==
    CASE v = "BlindedBellatrix" -> "Bellatrix"
      [] v = "BlindedCapella"   -> "Capella"
      [] v = "BlindedDeneb"     -> "Deneb"
      [] OTHER                  -> v

\* the variant of eth.GenericSignedBeaconBlock the ToGeneric method of the wire
\* struct of schema v wraps its block in (its return statement)
ToGenericVariant(v) ==
    CASE v = "Phase0"           -> "Phase0"
      [] v = "Altair"           -> "Altair"
      [] v = "Bellatrix"        -> "Bellatrix"
      [] v = "BlindedBellatrix" -> "BlindedBellatrix"
      [] v = "Capella"          -> "Capella"
      [] v = "BlindedCapella"   -> "BlindedCapella"
      [] v = "Deneb"            -> "Deneb"
      [] v = "BlindedDeneb"     -> "BlindedDeneb"

\* the ToGeneric method of the wire struct of schema v: the signature is
\* decoded first, then the slot; a body that does not spell its signature out
\* carries one that decodes
ToGeneric(v, body) ==
    LET slot == ParseUint(body.block.slot)
    IN  IF "signature" \in DOMAIN body.block /\ HexDecode(body.block.signature) = HexError
        THEN ConvError("could not decode b.Signature")
        ELSE IF slot = ParseError
        THEN ConvError("could not decode Message.Slot")
        ELSE [tag |-> ToGenericVariant(v), payload |-> ToGenericPayload(v),
              root |-> body.block.root, parent |-> body.block.parent, slot |-> slot]

\* the v1alpha1 struct the migration function of the SSZ branch of schema v returns
MigratedPayload(v) ==
    CASE v = "Phase0"           -> "SignedBeaconBlock"
      [] v = "Altair"           -> "SignedBeaconBlockAltair"
      [] v = "Bellatrix"        -> "SignedBeaconBlockBellatrix"
      [] v = "BlindedBellatrix" -> "SignedBlindedBeaconBlockBellatrix"
      [] v = "Capella"          -> "SignedBeaconBlockCapella"
      [] v = "BlindedCapella"   -> "SignedBlindedBeaconBlockCapella"
      [] v = "Deneb"            -> "SignedBeaconBlockAndBlobsDeneb"
      [] v = "BlindedDeneb"     -> "SignedBlindedBeaconBlockAndBlobsDeneb"

\* the variant the SSZ branch of schema v wraps the migrated block in
SSZVariant(v) ==
    CASE v = "Phase0"           -> "Phase0"
      [] v = "Altair"           -> "Altair"
      [] v = "Bellatrix"        -> "Bellatrix"
      [] v = "BlindedBellatrix" -> "BlindedBellatrix"
      [] v = "Capella"          -> "Capella"
      [] v = "BlindedCapella"   -> "BlindedCapella"
      [] v = "Deneb"            -> "Deneb"
      [] v = "BlindedDeneb"     -> "BlindedDeneb"

WrapSSZ_CopyPaste(v, body) ==
    [tag |-> IF v = "Capella" THEN "Bellatrix" ELSE SSZVariant(v), payload |-> MigratedPayload(v),
     root |-> body.block.root, parent |-> body.block.parent, slot |-> body.block.slot]

\* the branch of publishBlockV2SSZ / publishBlindedBlockV2SSZ for schema v:
\* the migrated block wrapped in the variant of v
WrapSSZ(v, body) ==
    [tag |-> SSZVariant(v), payload |-> MigratedPayload(v),
     root |-> body.block.root, parent |-> body.block.parent, slot |-> body.block.slot]

NoMatchMessage == "Body does not represent a valid block type"

ConvMessage == "Could not decode request body into consensus block"

Matched_SkipGate(r, g) ==
    /\ blk' = [blk EXCEPT ![r] = g]
    /\ Goto(r, "propose")

\* what follows a successful conversion: the generic block goes to
\* validateBroadcast, and from there to proposeBlock
Matched(r, g) ==
    /\ blk' = [blk EXCEPT ![r] = g]
    /\ Goto(r, "validateBroadcast")

NextSchema_InternalError(r, order) ==
    IF idx[r] < Len(order)
    THEN /\ idx' = [idx EXCEPT ![r] = @ + 1]
         /\ resp' = resp
         /\ pc' = pc
    ELSE /\ idx' = idx
         /\ WriteError(r, StatusInternalServerError, <<"Could not read request body">>)
         /\ Finish(r)

\* what follows a schema that did not match: the next schema, or the final 400
NextSchema(r, order) ==
    IF idx[r] < Len(order)
    THEN /\ idx' = [idx EXCEPT ![r] = @ + 1]
         /\ resp' = resp
         /\ pc' = pc
    ELSE /\ idx' = idx
         /\ WriteError(r, StatusBadRequest, <<NoMatchMessage>>)
         /\ Finish(r)

\* one "if err = unmarshalStrict(...); err == nil { if err = validate.Struct(...)"
\* block of publishBlockV2 / publishBlindedBlockV2
tryJSON(r) ==
    /\ pc[r] = "decode"
    /\ ~IsSSZ(req[r])
    /\ LET order == SchemaOrder(req[r].endpoint)
           v == order[idx[r]]
           body == req[r].body
           strict == unmarshalStrict(body, v)
           validated == strict /\ validateStruct(body, v)
           valid == Matches(body, v)
           g == ToGeneric(v, body)
           log == <<CallRec("unmarshalStrict", v, strict)>> \o
                  (IF strict THEN <<CallRec("validate.Struct", v, validated)>> ELSE <<>>) \o
                  (IF valid THEN <<CallRec("ToGeneric", v, g.tag # "error")>> ELSE <<>>)
       IN  /\ calls' = [calls EXCEPT ![r] = @ \o log]
           /\ IF valid
              THEN IF g.tag = "error"
                   THEN /\ WriteError(r, StatusBadRequest, <<ConvMessage, g.root>>)
                        /\ Finish(r)
                        /\ UNCHANGED <<idx, blk>>
                   ELSE /\ Matched(r, g)
                        /\ UNCHANGED <<idx, resp>>
              ELSE NextSchema(r, order) /\ blk' = blk
    /\ UNCHANGED <<req, got, hdr, nodeVars>>

\* one "if err := x.UnmarshalSSZ(body); err == nil" block of publishBlockV2SSZ /
\* publishBlindedBlockV2SSZ; the migration to the v1alpha1 type may fail
trySSZ(r) ==
    /\ pc[r] = "decode"
    /\ IsSSZ(req[r])
    /\ LET order == SchemaOrder(req[r].endpoint)
           v == order[idx[r]]
           body == req[r].body
           decoded == v \in body.ssz
       IN  IF decoded
           THEN \E migrated \in BOOLEAN :
                  /\ calls' = [calls EXCEPT ![r] = @ \o <<CallRec("UnmarshalSSZ", v, TRUE),
                                                           CallRec("migration", v, migrated)>>]
                  /\ IF migrated
                     THEN /\ Matched(r, WrapSSZ(v, body))
                          /\ UNCHANGED <<idx, resp>>
                     ELSE /\ WriteError(r, StatusBadRequest, <<ConvMessage, "migration">>)
                          /\ Finish(r)
                          /\ UNCHANGED <<idx, blk>>
           ELSE /\ Call(r, "UnmarshalSSZ", v, FALSE)
                /\ NextSchema(r, order)
                /\ blk' = blk
    /\ UNCHANGED <<req, got, hdr, nodeVars>>

----------------------------------------------------------------------------
(* The broadcast-validation gate *)

\* blocks.NewSignedBeaconBlock(blk.Block): fails on a nil or unknown variant
NewSignedBeaconBlock(g) == g.tag \in Variants

validateBroadcast_AnyCase(r) ==
    /\ pc[r] = "validateBroadcast"
    /\ calls' = [calls EXCEPT ![r] = Append(@, CallRec("validateBroadcast", blk[r], req[r].policy))]
    /\ IF req[r].policy # ""
       THEN IF NewSignedBeaconBlock(blk[r])
            THEN resp' = resp /\ Goto(r, "State")
            ELSE WriteError(r, StatusBadRequest, <<"could not create signed beacon block">>)
                 /\ Finish(r)
       ELSE resp' = resp /\ Goto(r, "propose")
    /\ UNCHANGED <<req, idx, blk, got, hdr, nodeVars>>

\* validateBroadcast: the switch on the broadcast_validation parameter, up to
\* the first collaborator call
validateBroadcast(r) ==
    /\ pc[r] = "validateBroadcast"
    /\ calls' = [calls EXCEPT ![r] = Append(@, CallRec("validateBroadcast", blk[r], req[r].policy))]
    /\ IF req[r].policy \in {broadcastValidationConsensus,
                             broadcastValidationConsensusAndEquivocation}
       THEN IF NewSignedBeaconBlock(blk[r])
            THEN resp' = resp /\ Goto(r, "State")
            ELSE WriteError(r, StatusBadRequest, <<"could not create signed beacon block">>)
                 /\ Finish(r)
       ELSE resp' = resp /\ Goto(r, "propose")
    /\ UNCHANGED <<req, idx, blk, got, hdr, nodeVars>>

validateConsensusState_IgnoreError(r) ==
    /\ pc[r] = "State"
    /\ Call(r, "State", blk[r].parent, blk[r].parent \in stateStore)
    /\ resp' = resp
    /\ Goto(r, "ExecuteStateTransition")
    /\ UNCHANGED <<req, idx, blk, got, hdr, nodeVars>>

\* validateConsensus, first half: bs.Stater.State(ctx, parentRoot)
validateConsensusState(r) ==
    /\ pc[r] = "State"
    /\ LET found == blk[r].parent \in stateStore
       IN  /\ Call(r, "State", blk[r].parent, found)
           /\ IF found
              THEN resp' = resp /\ Goto(r, "ExecuteStateTransition")
              ELSE WriteError(r, StatusBadRequest,
                              <<"consensus validation failed", "could not get parent state">>)
                   /\ Finish(r)
    /\ UNCHANGED <<req, idx, blk, got, hdr, nodeVars>>

AfterConsensus_Always(policy) == "HighestReceivedBlockSlot"

\* validateBroadcast after a successful validateConsensus: the equivocation
\* check under consensus_and_equivocation, the return otherwise
AfterConsensus(policy) ==
    IF policy = broadcastValidationConsensusAndEquivocation
    THEN "HighestReceivedBlockSlot" ELSE "propose"

validateConsensusTransition_Commits(r) ==
    /\ pc[r] = "ExecuteStateTransition"
    /\ \E ok \in BOOLEAN :
         /\ Call(r, "ExecuteStateTransition", blk[r], ok)
         /\ IF ~ok
            THEN /\ WriteError(r, StatusBadRequest,
                               <<"consensus validation failed", "could not execute state transition">>)
                 /\ Finish(r)
                 /\ UNCHANGED nodeVars
            ELSE /\ resp' = resp
                 /\ Goto(r, AfterConsensus(req[r].policy))
                 /\ stateStore' = stateStore \cup {blk[r].root}
                 /\ UNCHANGED highestReceived
    /\ UNCHANGED <<req, idx, blk, got, hdr>>

\* validateConsensus, second half: transition.ExecuteStateTransition, and the
\* return into validateBroadcast
validateConsensusTransition(r) ==
    /\ pc[r] = "ExecuteStateTransition"
    /\ \E ok \in BOOLEAN :
         /\ Call(r, "ExecuteStateTransition", blk[r], ok)
         /\ IF ~ok
            THEN WriteError(r, StatusBadRequest,
                            <<"consensus validation failed", "could not execute state transition">>)
                 /\ Finish(r)
            ELSE /\ resp' = resp
                 /\ Goto(r, AfterConsensus(req[r].policy))
    /\ UNCHANGED <<req, idx, blk, got, hdr, nodeVars>>

Equivocates_Greater(highest, slot) == highest > slot

\* the test of validateEquivocation
Equivocates(highest, slot) == highest = slot

validateEquivocation_WarnOnly(r) ==
    /\ pc[r] = "HighestReceivedBlockSlot"
    /\ Call(r, "HighestReceivedBlockSlot", blk[r].slot, highestReceived)
    /\ resp' = resp /\ Goto(r, "propose")
    /\ UNCHANGED <<req, idx, blk, got, hdr, nodeVars>>

\* validateEquivocation
validateEquivocation(r) ==
    /\ pc[r] = "HighestReceivedBlockSlot"
    /\ Call(r, "HighestReceivedBlockSlot", blk[r].slot, highestReceived)
    /\ IF Equivocates(highestReceived, blk[r].slot)
       THEN WriteError(r, StatusBadRequest,
                       <<"equivocation validation failed", "already exists in fork choice">>)
            /\ Finish(r)
       ELSE resp' = resp /\ Goto(r, "propose")
    /\ UNCHANGED <<req, idx, blk, got, hdr, nodeVars>>

Max(a, b) == IF a > b THEN a ELSE b

proposeBlock_RetryOnce(r) ==
    /\ pc[r] = "propose"
    /\ \E ok \in BOOLEAN :
         /\ Call(r, "ProposeBeaconBlock", blk[r], ok)
         /\ IF ok
            THEN /\ resp' = resp
                 /\ stateStore' = stateStore \cup {blk[r].root}
                 /\ highestReceived' = Max(highestReceived, blk[r].slot)
                 /\ Finish(r)
            ELSE IF \E i \in 1..Len(calls[r]) : calls[r][i].op = "ProposeBeaconBlock"
                 THEN /\ WriteError(r, StatusInternalServerError, <<"ProposeBeaconBlock failed">>)
                      /\ Finish(r)
                      /\ UNCHANGED nodeVars
                 ELSE UNCHANGED <<resp, pc, nodeVars>>
    /\ UNCHANGED <<req, idx, blk, got, hdr>>

\* proposeBlock: bs.V1Alpha1ValidatorServer.ProposeBeaconBlock(ctx, blk); a block
\* the node accepts enters the state store and fork choice
proposeBlock(r) ==
    /\ pc[r] = "propose"
    /\ \E ok \in BOOLEAN :
         /\ Call(r, "ProposeBeaconBlock", blk[r], ok)
         /\ IF ok
            THEN /\ resp' = resp
                 /\ stateStore' = stateStore \cup {blk[r].root}
                 /\ highestReceived' = Max(highestReceived, blk[r].slot)
            ELSE /\ WriteError(r, StatusInternalServerError, <<"ProposeBeaconBlock failed">>)
                 /\ UNCHANGED nodeVars
    /\ Finish(r)
    /\ UNCHANGED <<req, idx, blk, got, hdr>>

----------------------------------------------------------------------------
(* Block production *)

\* what GetBeaconBlock may return: a variant with its IsBlinded and PayloadValue
\* fields and the proposer slashings of its block, unset or empty; valid says
\* whether the struct validator accepts the converted block
GetResults ==
    {[variant |-> v, isBlinded |-> b, payloadValue |-> p, proposerSlashings |-> ps, valid |-> ok] :
        v \in Variants, b \in BOOLEAN, p \in {0, 7}, ps \in {NilSlice, EmptySlice},
        ok \in BOOLEAN}

\* convertInternalProposerSlashings on the slot and the signature of the first
\* header: the list and the error, "" for none
convertInternalProposerSlashings(src) ==
    IF src.isNil
    THEN [list |-> <<>>, err |-> "proposer slashings are emtpy, nothing to convert."]
    ELSE [list |-> [i \in 1..Len(src.elems) |->
                      [slot |-> FormatUint(src.elems[i].slot),
                       signature |-> HexEncode(src.elems[i].signature)]],
          err |-> ""]

\* convertInternalBeaconBlock and the converters of the other variants: the
\* proposer slashings are converted first and their error is returned
convertInternalBeaconBlock(g) ==
    LET proposerSlashings == convertInternalProposerSlashings(g.proposerSlashings)
    IN  IF proposerSlashings.err # "" THEN [block |-> "nil", err |-> proposerSlashings.err]
        ELSE [block |-> g.variant, err |-> ""]

RandaoReveal_IgnoreSkip(q) == HexDecode(q.params.randao)

\* the randao reveal ProduceBlockV3 derives from the query parameters
RandaoReveal(q) ==
    IF q.params.skip = "true" THEN PointAtInfinity ELSE HexDecode(q.params.randao)

\* the eth.BlockRequest ProduceBlockV3 passes to produceBlockV3
BlockRequest(q) ==
    [slot |-> ParseUint(q.params.slot), randaoReveal |-> RandaoReveal(q),
     graffiti |-> HexDecode(q.params.graffiti), skipMevBoost |-> FALSE]

\* ProduceBlockV3 after checkSync: the validation of the query parameters
ProduceBlockV3(r) ==
    /\ pc[r] = "params"
    /\ LET q == req[r]
           bad(msg) == WriteError(r, StatusBadRequest, <<msg>>) /\ Finish(r)
       IN  IF q.params.slot = <<>> THEN bad("slot is required")
           ELSE IF ParseUint(q.params.slot) = ParseError THEN bad("slot is invalid")
           ELSE IF q.params.skip # "true" /\ HexDecode(q.params.randao) = HexError
                THEN bad("unable to decode randao reveal")
           ELSE IF Len(RandaoReveal(q)) = 0
                THEN bad("randao reveal is required as query parameters")
           ELSE IF HexDecode(q.params.graffiti) = HexError
                THEN bad("unable to decode graffiti")
           ELSE resp' = resp /\ Goto(r, "GetBeaconBlock")
    /\ UNCHANGED <<req, idx, blk, got, hdr, calls, nodeVars>>

\* version.String of the fork of a variant, as each branch of produceBlockV3 writes it
ResponseVersion(v) ==
    CASE v = "Phase0" -> "phase0"
      [] v = "Altair" -> "altair"
      [] v \in {"Bellatrix", "BlindedBellatrix"} -> "bellatrix"
      [] v \in {"Capella", "BlindedCapella"} -> "capella"
      [] v \in {"Deneb", "BlindedDeneb"} -> "deneb"

\* the ExecutionPayloadBlinded field each branch of produceBlockV3 writes
ResponseBlinded(v) == v \in {"BlindedBellatrix", "BlindedCapella", "BlindedDeneb", "Deneb"}

\* fmt.Sprintf("%v", b) of a bool
FormatBool(b) == IF b THEN "true" ELSE "false"

\* the two w.Header().Set calls at the head of each branch of produceBlockV3
ProduceHeaders(g) ==
    [set |-> TRUE, blinded |-> FormatBool(g.isBlinded), value |-> FormatUint(g.payloadValue)]

ProduceBranch_NoHeaders(r, g, marshals, after) ==
    /\ hdr' = hdr
    /\ IF req[r].accept = "ssz"
       THEN /\ IF marshals THEN WriteSsz(r, hdr[r], g.variant)
                          ELSE WriteError(r, StatusInternalServerError, <<"MarshalSSZ failed">>)
            /\ Finish(r)
       ELSE IF convertInternalBeaconBlock(g).err # ""
            THEN WriteError(r, StatusInternalServerError, <<convertInternalBeaconBlock(g).err>>)
                 /\ Finish(r)
            ELSE IF g.valid
                 THEN WriteJson(r, hdr[r], ResponseVersion(g.variant), ResponseBlinded(g.variant),
                                convertInternalBeaconBlock(g).block)
                      /\ Finish(r)
                 ELSE resp' = resp /\ Goto(r, after)

\* one "if ok {" branch of produceBlockV3 for the variant of g: the headers,
\* then the SSZ or the JSON response; a block the validator rejects falls
\* through to the code after the branch, at label after
ProduceBranch(r, g, marshals, after) ==
    LET h == ProduceHeaders(g)
    IN  /\ hdr' = [hdr EXCEPT ![r] = h]
        /\ IF req[r].accept = "ssz"
           THEN /\ IF marshals THEN WriteSsz(r, h, g.variant)
                              ELSE WriteErrorWith(r, h, StatusInternalServerError,
                                                  <<"MarshalSSZ failed">>)
                /\ Finish(r)
           ELSE IF convertInternalBeaconBlock(g).err # ""
                THEN WriteErrorWith(r, h, StatusInternalServerError,
                                    <<convertInternalBeaconBlock(g).err>>)
                     /\ Finish(r)
                ELSE IF g.valid
                     THEN WriteJson(r, h, ResponseVersion(g.variant), ResponseBlinded(g.variant),
                                    convertInternalBeaconBlock(g).block)
                          /\ Finish(r)
                     ELSE resp' = resp /\ Goto(r, after)

produceBlockV3_OptimisticFirst(r) ==
    /\ pc[r] = "GetBeaconBlock"
    /\ \/ /\ Call(r, "GetBeaconBlock", BlockRequest(req[r]), FALSE)
          /\ WriteError(r, StatusInternalServerError, <<"GetBeaconBlock failed">>)
          /\ Finish(r)
          /\ UNCHANGED <<got, hdr>>
       \/ \E g \in GetResults :
            /\ Call(r, "GetBeaconBlock", BlockRequest(req[r]), TRUE)
            /\ got' = [got EXCEPT ![r] = g]
            /\ resp' = resp /\ hdr' = hdr /\ Goto(r, "IsOptimistic")
    /\ UNCHANGED <<req, idx, blk, nodeVars>>

\* produceBlockV3 up to the optimistic check: GetBeaconBlock and the Phase0 and
\* Altair branches
produceBlockV3(r) ==
    /\ pc[r] = "GetBeaconBlock"
    /\ \/ /\ Call(r, "GetBeaconBlock", BlockRequest(req[r]), FALSE)
          /\ WriteError(r, StatusInternalServerError, <<"GetBeaconBlock failed">>)
          /\ Finish(r)
          /\ UNCHANGED <<got, hdr>>
       \/ \E g \in GetResults, marshals \in BOOLEAN :
            /\ Call(r, "GetBeaconBlock", BlockRequest(req[r]), TRUE)
            /\ got' = [got EXCEPT ![r] = g]
            /\ IF g.variant \in {"Phase0", "Altair"}
               THEN ProduceBranch(r, g, marshals, "IsOptimistic")
               ELSE resp' = resp /\ hdr' = hdr /\ Goto(r, "IsOptimistic")
    /\ UNCHANGED <<req, idx, blk, nodeVars>>

OptimisticOutcomes == {"optimistic", "verified", "error"}

produceBlockV3Optimistic_ServesOptimistic(r) ==
    /\ pc[r] = "IsOptimistic"
    /\ \E o \in OptimisticOutcomes, marshals \in BOOLEAN :
         /\ Call(r, "IsOptimistic", "", o)
         /\ IF o = "error"
            THEN /\ WriteError(r, StatusInternalServerError,
                               <<"Could not determine if the node is a optimistic node">>)
                 /\ Finish(r) /\ hdr' = hdr
            ELSE IF got[r].variant \in {"Phase0", "Altair"}
                 THEN resp' = resp /\ hdr' = hdr /\ Finish(r)
                 ELSE ProduceBranch(r, got[r], marshals, "done")
    /\ UNCHANGED <<req, idx, blk, got, nodeVars>>

\* produceBlockV3 from the optimistic check on: IsOptimistic and the branches
\* of the Bellatrix, Capella and Deneb variants; a variant no branch takes
\* leaves the handler without a response written
produceBlockV3Optimistic(r) ==
    /\ pc[r] = "IsOptimistic"
    /\ \E o \in OptimisticOutcomes, marshals \in BOOLEAN :
         /\ Call(r, "IsOptimistic", "", o)
         /\ IF o = "error"
            THEN /\ WriteError(r, StatusInternalServerError,
                               <<"Could not determine if the node is a optimistic node">>)
                 /\ Finish(r) /\ hdr' = hdr
            ELSE IF o = "optimistic"
            THEN /\ WriteError(r, StatusServiceUnavailable,
                               <<"The node is currently optimistic and cannot serve validators">>)
                 /\ Finish(r) /\ hdr' = hdr
            ELSE IF got[r].variant \in {"Phase0", "Altair"}
                 THEN resp' = resp /\ hdr' = hdr /\ Finish(r)
                 ELSE ProduceBranch(r, got[r], marshals, "done")
    /\ UNCHANGED <<req, idx, blk, got, nodeVars>>

----------------------------------------------------------------------------
(* The JSON converters of the Bellatrix block, field by field *)

\* the byte of a character of a hex or decimal string
AsciiCode(c) ==
    IF c \in DOMAIN DigitValue THEN 48 + DigitValue[c]
    ELSE IF c = "x" THEN 120 ELSE 87 + HexValue[c]

\* []byte(s): the bytes of the string itself
StringBytes(s) == [i \in 1..Len(s) |-> AsciiCode(s[i])]

\* the digit at position j of a digit sequence, zero before its start
DigitAt(d, j) == IF j >= 1 THEN d[j] ELSE 0

\* the remainder modulo 256 of the number written by d[1..i]: 10^8 is a
\* multiple of 256, so the last eight digits decide it
PrefixRem(d, i) ==
    (DigitAt(d, i) + 10 * DigitAt(d, i - 1) + 100 * DigitAt(d, i - 2)
       + 1000 * DigitAt(d, i - 3) + 10000 * DigitAt(d, i - 4)
       + 100000 * DigitAt(d, i - 5) + 1000000 * DigitAt(d, i - 6)
       + 10000000 * DigitAt(d, i - 7)) % 256

\* the long division of a decimal number by 256: quotient digits and remainder
DivStep(d) ==
    [quot |-> SubSeq([i \in 1..Len(d) |-> (PrefixRem(d, i - 1) * 10 + d[i]) \div 256],
                     1, Len(d)),
     rem |-> PrefixRem(d, Len(d))]

\* big.Int.Bytes: the big-endian bytes of the absolute value, none for zero
RECURSIVE BigIntBytes(_)
BigIntBytes(d) ==
    IF \A i \in 1..Len(d) : d[i] = 0 THEN <<>>
    ELSE LET qr == DivStep(d)
         IN  Append(BigIntBytes(qr.quot), qr.rem)

\* bytesutil.PadTo: zero bytes appended up to the size
PadTo(b, size) == IF Len(b) >= size THEN b ELSE b \o [i \in 1..(size - Len(b)) |-> 0]

\* bytesutil.ReverseByteOrder
ReverseByteOrder(b) == [i \in 1..Len(b) |-> b[Len(b) + 1 - i]]

\* uint256ToHex: big.Int.SetString(num, 10) takes an optional sign and digits
uint256ToHex(num) ==
    LET digits == IF num # <<>> /\ Head(num) \in {"+", "-"} THEN Tail(num) ELSE num
    IN  IF digits = <<>> \/ ~AllDigits(digits) THEN HexError
        ELSE LET bigEndian == BigIntBytes([i \in 1..Len(digits) |-> DigitValue[digits[i]]])
             IN  IF Len(bigEndian) > 32 THEN HexError
                 ELSE ReverseByteOrder(PadTo(bigEndian, 32))

\* convertAtts: the aggregation bits are taken as the bytes of the string
convertAtts(src) == [i \in 1..Len(src) |-> [aggregationBits |-> StringBytes(src[i].aggregationBits)]]

\* convertInternalAtts
convertInternalAtts(src) ==
    [i \in 1..Len(src) |-> [aggregationBits |-> HexEncode(src[i].aggregationBits)]]

\* SignedBeaconBlockBellatrix.ToGeneric on the fields slot, parent root,
\* attestations and base fee per gas
BellatrixToGeneric(b) ==
    IF ParseUint(b.slot) = ParseError THEN ConvError("could not decode b.Message.Slot")
    ELSE IF HexDecode(b.parentRoot) = HexError
         THEN ConvError("could not decode b.Message.ParentRoot")
    ELSE IF uint256ToHex(b.baseFeePerGas) = HexError
         THEN ConvError("could not decode b.Message.Body.ExecutionPayload.BaseFeePerGas")
    ELSE [slot |-> ParseUint(b.slot),
          parentRoot |-> HexDecode(b.parentRoot),
          attestations |-> convertAtts(b.attestations),
          baseFeePerGas |-> uint256ToHex(b.baseFeePerGas)]

\* convertInternalBeaconBlockBellatrix on the same fields
convertInternalBeaconBlockBellatrix(b) ==
    [slot |-> FormatUint(b.slot),
     parentRoot |-> HexEncode(b.parentRoot),
     attestations |-> convertInternalAtts(b.attestations),
     baseFeePerGas |-> HexEncode(b.baseFeePerGas)]

\* valid wire blocks: canonical decimal strings and lower-case 0x hex strings
ConvWireBlocks ==
    {[slot |-> sl, parentRoot |-> pr, attestations |-> at, baseFeePerGas |-> bf] :
        sl \in {<<"7">>, <<"1", "0">>},
        pr \in {<<"0", "x">>, <<"0", "x", "a", "b">>, <<"0", "x", "0", "a", "0", "b">>},
        at \in {<<>>, <<[aggregationBits |-> <<"0", "x", "0", "1">>]>>,
                 <<[aggregationBits |-> <<"0", "x", "0", "1">>],
                   [aggregationBits |-> <<"0", "x", "f", "f">>]>>},
        bf \in {<<"0">>, <<"7">>, <<"2", "5", "6">>, <<"6", "5", "5", "3", "6">>,
                 <<"1", "8", "4", "4", "6", "7", "4", "4", "0", "7",
                   "3", "7", "0", "9", "5", "5", "1", "6", "1", "6">>}}

\* 2^256 as a decimal string
TwoTo256Digits == <<"1", "1", "5", "7", "9", "2", "0", "8", "9", "2",
                  "3", "7", "3", "1", "6", "1", "9", "5", "4", "2",
                  "3", "5", "7", "0", "9", "8", "5", "0", "0", "8",
                  "6", "8", "7", "9", "0", "7", "8", "5", "3", "2",
                  "6", "9", "9", "8", "4", "6", "6", "5", "6", "4",
                  "0", "5", "6", "4", "0", "3", "9", "4", "5", "7",
                  "5", "8", "4", "0", "0", "7", "9", "1", "3", "1",
                  "2", "9", "6", "3", "9", "9", "3", "6">>

\* wire blocks with one decimal field that is not an unsigned integer of the
\* width of the field: empty, signed, not a number, or too large
ConvBadWireBlocks ==
    {[slot |-> sl, parentRoot |-> <<"0", "x", "a", "b">>, attestations |-> <<>>,
      baseFeePerGas |-> <<"7">>] :
        sl \in {<<>>, <<"-", "5">>, <<"x">>,
                 <<"1", "8", "4", "4", "6", "7", "4", "4", "0", "7",
                   "3", "7", "0", "9", "5", "5", "1", "6", "1", "6">>}} \cup
    {[slot |-> <<"7">>, parentRoot |-> <<"0", "x", "a", "b">>, attestations |-> <<>>,
      baseFeePerGas |-> bf] :
        bf \in {<<>>, <<"-", "5">>, <<"x">>, TwoTo256Digits}}

\* valid internal blocks: the base fee is 32 bytes
ConvInternalBlocks ==
    {[slot |-> sl, parentRoot |-> pr, attestations |-> at, baseFeePerGas |-> bf] :
        sl \in {7, 10},
        pr \in {<<>>, <<171>>},
        at \in {<<>>, <<[aggregationBits |-> <<1>>]>>},
        bf \in {[i \in 1..32 |-> IF i = 1 THEN 7 ELSE 0],
                 [i \in 1..32 |-> IF i = 2 THEN 1 ELSE 0]}}

\* the wire block of a request is converted to the internal block, or the
\* wire form of an internal block is converted back
ConvToGeneric(r) ==
    /\ \/ /\ pc[r] = "wire"
          /\ blk' = [blk EXCEPT ![r] = BellatrixToGeneric(req[r])]
          /\ Goto(r, "generic")
          /\ hdr' = hdr
       \/ /\ pc[r] = "wired"
          /\ hdr' = [hdr EXCEPT ![r] = BellatrixToGeneric(got[r])]
          /\ Goto(r, "internalAgain")
          /\ blk' = blk
    /\ UNCHANGED <<req, idx, got, calls, resp, nodeVars>>

\* an internal block is converted to its wire form
ConvInternal(r) ==
    /\ \/ pc[r] = "generic" /\ "tag" \notin DOMAIN blk[r] /\ Goto(r, "wireAgain")
       \/ pc[r] = "internal" /\ Goto(r, "wired")
    /\ got' = [got EXCEPT ![r] = convertInternalBeaconBlockBellatrix(blk[r])]
    /\ UNCHANGED <<req, idx, blk, hdr, calls, resp, nodeVars>>

----------------------------------------------------------------------------
(* Specifications *)

Next ==
    \E r \in Reqs :
        \/ \E q \in Requests : Begin(r, q)
        \/ checkSync(r)
        \/ readBody(r)
        \/ tryJSON(r)
        \/ trySSZ(r)
        \/ validateBroadcast(r)
        \/ validateConsensusState(r)
        \/ validateConsensusTransition(r)
        \/ validateEquivocation(r)
        \/ proposeBlock(r)
        \/ ProduceBlockV3(r)
        \/ produceBlockV3(r)
        \/ produceBlockV3Optimistic(r)

\* one request, of any endpoint and with any kind of body, arriving in any node state
Spec == Init /\ [][Next]_vars

ConcInit == InitOver(ConcReqs, {[store |-> {GenesisRoot}, highest |-> 0]})

ConcNext ==
    \E r \in ConcReqs :
        \/ \E q \in ConcRequests : Begin(r, q)
        \/ checkSync(r)
        \/ readBody(r)
        \/ tryJSON(r)
        \/ validateBroadcast(r)
        \/ validateConsensusState(r)
        \/ validateConsensusTransition(r)
        \/ validateEquivocation(r)
        \/ proposeBlock(r)

\* MaxConc publish requests in flight at once, each served once
ConcSpec == ConcInit /\ [][ConcNext]_vars

DispatchNext ==
    \E r \in ConcReqs :
        \/ \E q \in DispatchRequests : Begin(r, q)
        \/ checkSync(r)
        \/ readBody(r)
        \/ trySSZ(r)
        \/ validateBroadcast(r)
        \/ proposeBlock(r)

\* MaxConc SSZ publish requests in flight at once, in any order and with
\* repeated payloads, each served once
DispatchSpec == ConcInit /\ [][DispatchNext]_vars

----------------------------------------------------------------------------
(* The conversion of the Deneb block contents: blob sidecars and block *)

\* convertToSignedBlobSidecar: sidecar i of the contents, counted from 0; the
\* message is the format string with its argument
convertToSignedBlobSidecar(i, signedBlob) ==
    IF HexDecode(signedBlob.signature) = HexError
    THEN ConvError(<<"could not decode signedBlob.Signature">>)
    ELSE IF HexDecode(signedBlob.blockRoot) = HexError
    THEN ConvError(<<"could not decode signedBlob.Message.BlockRoot at index %d", i>>)
    ELSE IF ParseUint(signedBlob.index) = ParseError
    THEN ConvError(<<"could not decode signedBlob.Message.Index at index %d", i>>)
    ELSE IF ParseUint(signedBlob.slot) = ParseError
    THEN ConvError(<<"could not decode signedBlob.Message.Index at index %d", i>>)
    ELSE IF HexDecode(signedBlob.blockParentRoot) = HexError
    THEN ConvError(<<"could not decode signedBlob.Message.BlockParentRoot at index %d", i>>)
    ELSE IF ParseUint(signedBlob.proposerIndex) = ParseError
    THEN ConvError(<<"could not decode signedBlob.Message.ProposerIndex at index %d", i>>)
    ELSE IF HexDecode(signedBlob.blob) = HexError
    THEN ConvError(<<"could not decode signedBlob.Message.Blob at index %d", i>>)
    ELSE IF HexDecode(signedBlob.kzgCommitment) = HexError
    THEN ConvError(<<"could not decode signedBlob.Message.KzgCommitment at index %d", i>>)
    ELSE IF HexDecode(signedBlob.kzgProof) = HexError
    THEN ConvError(<<"could not decode signedBlob.Message.KzgProof at index %d", i>>)
    ELSE [signature |-> HexDecode(signedBlob.signature),
          blockRoot |-> HexDecode(signedBlob.blockRoot),
          index |-> ParseUint(signedBlob.index),
          slot |-> ParseUint(signedBlob.slot),
          blockParentRoot |-> HexDecode(signedBlob.blockParentRoot),
          proposerIndex |-> ParseUint(signedBlob.proposerIndex),
          blob |-> HexDecode(signedBlob.blob),
          kzgCommitment |-> HexDecode(signedBlob.kzgCommitment),
          kzgProof |-> HexDecode(signedBlob.kzgProof)]

\* convertToSignedDenebBlock on the signature and the timestamp of the
\* execution payload
convertToSignedDenebBlock(signedBlock) ==
    IF HexDecode(signedBlock.signature) = HexError
    THEN ConvError(<<"could not decode signedBlock .Signature">>)
    ELSE IF ParseUint(signedBlock.timestamp) = ParseError
    THEN ConvError(<<"could not decode signedBlock.Message.Body.ExecutionPayloadHeader.Timestamp">>)
    ELSE [signature |-> HexDecode(signedBlock.signature),
          timestamp |-> ParseUint(signedBlock.timestamp)]

\* SignedBeaconBlockContentsDeneb.ToGeneric: the sidecars in order, then the
\* block; the first error is returned
DenebToGeneric(b) ==
    LET blobs == [i \in 1..Len(b.signedBlobSidecars) |->
                     convertToSignedBlobSidecar(i - 1, b.signedBlobSidecars[i])]
        failed == {i \in 1..Len(blobs) : "tag" \in DOMAIN blobs[i]}
        block == convertToSignedDenebBlock(b.signedBlock)
    IN  IF failed # {} THEN blobs[CHOOSE i \in failed : \A j \in failed : i <= j]
        ELSE IF "tag" \in DOMAIN block THEN block
        ELSE [block |-> block, blobs |-> blobs]

\* the fields of a wire blob sidecar: hex strings and decimal strings
BlobHexFields == {"signature", "blockRoot", "blockParentRoot", "blob", "kzgCommitment",
                  "kzgProof"}
BlobUintFields == {"index", "slot", "proposerIndex"}

\* a wire blob sidecar whose fields decode, except the fields of the set bad
WireBlobSidecar(bad) ==
    [f \in BlobHexFields \cup BlobUintFields |->
        IF f \in BlobHexFields
        THEN IF f \in bad THEN <<"a", "b">> ELSE <<"0", "x", "a", "b">>
        ELSE IF f \in bad THEN <<"x">> ELSE <<"7">>]

\* wire blob sidecars with at most one field that does not decode
WireBlobSidecars ==
    {WireBlobSidecar({})} \cup {WireBlobSidecar({f}) : f \in BlobHexFields \cup BlobUintFields}

\* wire Deneb blocks: signature and timestamp, at most one of them not decoding
WireDenebBlocks ==
    {[signature |-> <<"0", "x", "a", "b">>, timestamp |-> <<"7">>],
     [signature |-> <<"a", "b">>, timestamp |-> <<"7">>],
     [signature |-> <<"0", "x", "a", "b">>, timestamp |-> <<"x">>]}

\* block contents with up to two sidecars
WireContentsDeneb ==
    {[signedBlobSidecars |-> sc, signedBlock |-> sb] :
        sc \in {<<>>} \cup {<<x>> : x \in WireBlobSidecars}
                 \cup {<<x, y>> : x \in WireBlobSidecars, y \in WireBlobSidecars},
        sb \in WireDenebBlocks}

\* the wire contents of a request are converted
ConvContents(r) ==
    /\ pc[r] = "contents"
    /\ blk' = [blk EXCEPT ![r] = DenebToGeneric(req[r])]
    /\ Goto(r, "generic")
    /\ UNCHANGED <<req, idx, got, hdr, calls, resp, nodeVars>>

----------------------------------------------------------------------------

HexNext ==
    \E r \in Reqs :
        \/ \E q \in HexRequests : Begin(r, q)
        \/ checkSync(r)
        \/ readBody(r)
        \/ tryJSON(r)
        \/ validateBroadcast(r)
        \/ validateConsensusState(r)
        \/ validateConsensusTransition(r)
        \/ validateEquivocation(r)
        \/ proposeBlock(r)

\* one JSON publish request whose signature is a hex string of any length
HexSpec == InitOver(Reqs, {[store |-> {GenesisRoot}, highest |-> 0]}) /\ [][HexNext]_vars

ConvInit ==
    /\ \/ \E x \in ConvWireBlocks \cup ConvBadWireBlocks :
             /\ pc = [r \in Reqs |-> "wire"]
             /\ req = [r \in Reqs |-> x]
             /\ blk = [r \in Reqs |-> NilBlk]
       \/ \E v \in ConvInternalBlocks :
             /\ pc = [r \in Reqs |-> "internal"]
             /\ req = [r \in Reqs |-> NoReq]
             /\ blk = [r \in Reqs |-> v]
    /\ idx = [r \in Reqs |-> 1]
    /\ got = [r \in Reqs |-> NoGot]
    /\ hdr = [r \in Reqs |-> NoHdr]
    /\ calls = [r \in Reqs |-> <<>>]
    /\ resp = [r \in Reqs |-> <<>>]
    /\ stateStore = {GenesisRoot}
    /\ highestReceived = 0

BlobInit ==
    /\ \E x \in WireContentsDeneb : req = [r \in Reqs |-> x]
    /\ pc = [r \in Reqs |-> "contents"]
    /\ blk = [r \in Reqs |-> NilBlk]
    /\ idx = [r \in Reqs |-> 1]
    /\ got = [r \in Reqs |-> NoGot]
    /\ hdr = [r \in Reqs |-> NoHdr]
    /\ calls = [r \in Reqs |-> <<>>]
    /\ resp = [r \in Reqs |-> <<>>]
    /\ stateStore = {GenesisRoot}
    /\ highestReceived = 0

BlobNext == \E r \in Reqs : ConvContents(r)

\* the conversion of Deneb block contents in which at most one field of every
\* sidecar and of the block does not decode
BlobSpec == BlobInit /\ [][BlobNext]_vars

ConvNext == \E r \in Reqs : ConvToGeneric(r) \/ ConvInternal(r)

\* the converters applied to a wire block and back, and to an internal block
\* and back
ConvSpec == ConvInit /\ [][ConvNext]_vars

----------------------------------------------------------------------------
(* Properties *)

Running == DOMAIN pc

CallsOf(r, op) == {i \in 1..Len(calls[r]) : calls[r][i].op = op}

Called(r, op) == CallsOf(r, op) # {}

GateOps == {"State", "ExecuteStateTransition", "HighestReceivedBlockSlot"}

IsPublish(r) == req[r].endpoint \in PublishEndpoints

HasMessage(r, part) ==
    resp[r] # <<>> /\ \E i \in 1..Len(resp[r][1].msg) : resp[r][1].msg[i] = part

\* the position of a schema in the order Deneb, Capella, Bellatrix, Altair, Phase0
ForkRank(v) ==
    CASE v \in {"Deneb", "BlindedDeneb"} -> 1
      [] v \in {"Capella", "BlindedCapella"} -> 2
      [] v \in {"Bellatrix", "BlindedBellatrix"} -> 3
      [] v = "Altair" -> 4
      [] v = "Phase0" -> 5

\* the entry of the log says that a check of the gate let the block through
GateCheckPassed(c) ==
    CASE c.op \in {"State", "ExecuteStateTransition"} -> c.res = TRUE
      [] c.op = "HighestReceivedBlockSlot" -> c.res # c.arg
      [] OTHER -> FALSE

\* C1: in every publish request ProposeBeaconBlock is called only after
\* validateBroadcast has run on the same generic block and every check the
\* gate made has let the block through; no response was written before the call.
C1_ProposeOnlyAfterGate ==
    \A r \in Running : \A i \in CallsOf(r, "ProposeBeaconBlock") :
        /\ \E j \in CallsOf(r, "validateBroadcast") :
             /\ j < i
             /\ calls[r][j].arg = calls[r][i].arg
             /\ \A k \in (j + 1)..(i - 1) : GateCheckPassed(calls[r][k])
        /\ \A k \in 1..Len(resp[r]) : resp[r][k].msg = <<"ProposeBeaconBlock failed">>

C1_Witness ==
    \E r \in Running :
        /\ pc[r] = "done"
        /\ req[r].policy = broadcastValidationConsensusAndEquivocation
        /\ Called(r, "HighestReceivedBlockSlot")
        /\ Called(r, "ProposeBeaconBlock")

\* C2: on the three endpoints, a node that reports syncing is answered with
\* 503 and a failing sync query with 500, and the handler then stops: the
\* sync query is the only call of the request (no body read, no decode, no
\* collaborator) and the one response written is that error.
C2_SyncGuardStops ==
    \A r \in Running :
        (calls[r] # <<>> /\ calls[r][1].op = "ValidateSyncHTTP"
           /\ calls[r][1].res \in {"syncing", "error"})
        => /\ pc[r] = "done"
           /\ Len(calls[r]) = 1
           /\ Len(resp[r]) = 1
           /\ resp[r][1].code = IF calls[r][1].res = "syncing" THEN 503 ELSE 500
           /\ blk[r] = NilBlk /\ got[r] = NoGot

C2_Witness ==
    \E r \in Running :
        /\ req[r].endpoint = "produce"
        /\ calls[r] = <<CallRec("ValidateSyncHTTP", "", "syncing")>>
        /\ Status(r) = 503

\* C3: under consensus_and_equivocation a block whose slot equals the value
\* HighestReceivedBlockSlot returns is answered with the 400 equivocation
\* error and is not passed to ProposeBeaconBlock, although its parent state
\* was found and the state transition succeeded.
C3_EquivocationRejected ==
    \A r \in Running : \A i \in CallsOf(r, "HighestReceivedBlockSlot") :
        calls[r][i].res = blk[r].slot
        => /\ \E j \in CallsOf(r, "ExecuteStateTransition") : j < i /\ calls[r][j].res = TRUE
           /\ i = Len(calls[r])
           /\ pc[r] = "done"
           /\ Status(r) = 400
           /\ HasMessage(r, "equivocation validation failed")

C3_Witness ==
    \E r \in Running :
        /\ Called(r, "HighestReceivedBlockSlot")
        /\ calls[r][Len(calls[r])] =
             CallRec("HighestReceivedBlockSlot", blk[r].slot, blk[r].slot)
        /\ Status(r) = 400

\* the blocks a request handed to ProposeBeaconBlock
Forwarded(r) == {calls[r][i].arg : i \in CallsOf(r, "ProposeBeaconBlock")}

\* C4 as stated: under consensus_and_equivocation no two distinct blocks of
\* the same slot are both handed to ProposeBeaconBlock, whatever the
\* interleaving of the requests.
C4_NoTwoBlocksPerSlot ==
    \A r1, r2 \in Running :
        (/\ r1 # r2
         /\ req[r1].policy = broadcastValidationConsensusAndEquivocation
         /\ req[r2].policy = broadcastValidationConsensusAndEquivocation)
        => \A b1 \in Forwarded(r1), b2 \in Forwarded(r2) :
              b1.slot = b2.slot => b1.root = b2.root

\* C4 as amended: under consensus_and_equivocation, whatever the interleaving,
\* a block is handed to ProposeBeaconBlock only by a request whose
\* equivocation check ran before the call and read a highest received slot
\* different from the block's slot; and a request whose check reads the
\* block's own slot, because another request's block of that slot has been
\* received meanwhile, ends with 400 without a propose call.
C4_ForwardedOnlyPastHighest ==
    \A r \in Running :
        req[r].policy = broadcastValidationConsensusAndEquivocation
        => /\ \A i \in CallsOf(r, "ProposeBeaconBlock") :
                \E j \in CallsOf(r, "HighestReceivedBlockSlot") :
                    j < i /\ calls[r][j].res # calls[r][i].arg.slot
           /\ \A j \in CallsOf(r, "HighestReceivedBlockSlot") :
                calls[r][j].res = calls[r][j].arg
                => ~Called(r, "ProposeBeaconBlock") /\ (pc[r] = "done" => Status(r) = 400)

C4_Witness ==
    \E r1, r2 \in Running :
        /\ r1 # r2
        /\ req[r1].policy = broadcastValidationConsensusAndEquivocation
        /\ req[r2].policy = broadcastValidationConsensusAndEquivocation
        /\ blk[r1].slot = blk[r2].slot /\ blk[r1].root # blk[r2].root
        /\ \E i \in CallsOf(r1, "ProposeBeaconBlock") : calls[r1][i].res = TRUE
        /\ pc[r2] = "done" /\ Status(r2) = 400
        /\ HasMessage(r2, "equivocation validation failed")

\* the operations of the log of r from validateBroadcast on
GateTrace(r) ==
    LET js == CallsOf(r, "validateBroadcast")
    IN  IF js = {} THEN <<>>
        ELSE LET j == CHOOSE x \in js : TRUE
             IN  [k \in 1..(Len(calls[r]) - j) |-> calls[r][j + k].op]

\* C5: the gate calls the collaborators its policy names and no other: without
\* a policy it calls none and the block goes straight to ProposeBeaconBlock;
\* under consensus it calls State, then ExecuteStateTransition, and never
\* HighestReceivedBlockSlot; under consensus_and_equivocation it calls
\* HighestReceivedBlockSlot only after State and ExecuteStateTransition
\* have succeeded.
C5_GateCallsPerPolicy ==
    \A r \in Running :
        LET t == GateTrace(r)
            full == <<"State", "ExecuteStateTransition", "HighestReceivedBlockSlot",
                      "ProposeBeaconBlock">>
            isPrefix(a, b) == Len(a) <= Len(b) /\ a = SubSeq(b, 1, Len(a))
        IN  /\ req[r].policy = ""
               => /\ \A op \in GateOps : ~Called(r, op)
                  /\ isPrefix(t, <<"ProposeBeaconBlock">>)
                  /\ (Called(r, "validateBroadcast") /\ pc[r] = "done"
                        => t = <<"ProposeBeaconBlock">>)
            /\ req[r].policy = broadcastValidationConsensus
               => /\ ~Called(r, "HighestReceivedBlockSlot")
                  /\ isPrefix(t, <<"State", "ExecuteStateTransition", "ProposeBeaconBlock">>)
                  /\ (Called(r, "validateBroadcast") /\ pc[r] = "done" => Len(t) >= 1)
            /\ req[r].policy = broadcastValidationConsensusAndEquivocation
               => /\ isPrefix(t, full)
                  /\ \A i \in CallsOf(r, "HighestReceivedBlockSlot") :
                        /\ calls[r][i - 2].op = "State" /\ calls[r][i - 2].res = TRUE
                        /\ calls[r][i - 1].op = "ExecuteStateTransition"
                        /\ calls[r][i - 1].res = TRUE

C5_Witness ==
    \E r \in Running :
        /\ req[r].policy = broadcastValidationConsensus
        /\ pc[r] = "done"
        /\ GateTrace(r) = <<"State", "ExecuteStateTransition", "ProposeBeaconBlock">>

\* C6: under consensus and under consensus_and_equivocation, a failed lookup of
\* the parent state ends the request with 400 and a message that contains
\* "could not get parent state", without a call of ExecuteStateTransition; a
\* failed state transition ends it with 400 and its cause; in both cases
\* ProposeBeaconBlock is not called.
C6_ConsensusFailureIs400 ==
    \A r \in Running :
        /\ \A i \in CallsOf(r, "State") :
              calls[r][i].res = FALSE
              => /\ i = Len(calls[r])
                 /\ pc[r] = "done"
                 /\ Status(r) = 400
                 /\ HasMessage(r, "could not get parent state")
        /\ \A i \in CallsOf(r, "ExecuteStateTransition") :
              calls[r][i].res = FALSE
              => /\ i = Len(calls[r])
                 /\ pc[r] = "done"
                 /\ Status(r) = 400
                 /\ HasMessage(r, "could not execute state transition")

C6_Witness ==
    \E r \in Running :
        /\ req[r].policy = broadcastValidationConsensus
        /\ req[r].body.keys = KnownKeys("Phase0")
        /\ blk[r].parent \notin stateStore
        /\ Called(r, "State")
        /\ Status(r) = 400
        /\ HasMessage(r, "could not get parent state")

\* the schemas an endpoint accepts: the blinded endpoint takes the blinded
\* variants from Bellatrix on
SchemasOf(endpoint) ==
    IF endpoint = "blinded_blocks"
    THEN {"BlindedDeneb", "BlindedCapella", "BlindedBellatrix", "Altair", "Phase0"}
    ELSE {"Deneb", "Capella", "Bellatrix", "Altair", "Phase0"}

\* the schemas of a log that operation op was applied to, in log order
RECURSIVE Attempts(_, _)
Attempts(log, op) ==
    IF log = <<>> THEN <<>>
    ELSE IF Head(log).op = op THEN <<Head(log).arg>> \o Attempts(Tail(log), op)
    ELSE Attempts(Tail(log), op)

\* C7: on the SSZ path the schemas are tried in the order Deneb, Capella,
\* Bellatrix, Altair, Phase0: the k-th decode attempt is the schema of rank k,
\* each attempt before the last has failed, the block built carries the
\* variant of the first schema of that order that decodes the body, and no
\* schema is tried after it.
C7_SSZFirstInOrderWins ==
    \A r \in Running :
        (IsPublish(r) /\ IsSSZ(req[r]))
        => LET a == Attempts(calls[r], "UnmarshalSSZ")
               ix == CallsOf(r, "UnmarshalSSZ")
           IN  /\ \A k \in 1..Len(a) : ForkRank(a[k]) = k
               /\ \A i \in ix :
                    /\ calls[r][i].res = (calls[r][i].arg \in req[r].body.ssz)
                    /\ calls[r][i].res = TRUE => \A j \in ix : j <= i
               /\ blk[r] # NilBlk
                  => /\ blk[r].tag \in req[r].body.ssz
                     /\ blk[r].tag = a[Len(a)]
                     /\ \A v \in req[r].body.ssz \cap SchemasOf(req[r].endpoint) :
                          ForkRank(blk[r].tag) <= ForkRank(v)
                     /\ \A i \in CallsOf(r, "ProposeBeaconBlock") : calls[r][i].arg = blk[r]

C7_Witness ==
    \E r \in Running :
        /\ req[r].endpoint = "blocks" /\ IsSSZ(req[r])
        /\ req[r].body.ssz = {"Capella", "Altair"}
        /\ blk[r].tag = "Capella"
        /\ Called(r, "ProposeBeaconBlock")

\* C8: on the JSON path a schema is taken only when the strict decode
\* succeeded (the body is JSON without a key the schema lacks) and the struct
\* validator then accepted the value; a schema for which either fails writes
\* no response and leads to no propose call: the next thing the handler does
\* is the strict decode of the next schema in the order Deneb, Capella,
\* Bellatrix, Altair, Phase0, or the final 400 after Phase0.
C8_JSONMatchNeedsDecodeAndValidate ==
    \A r \in Running :
        (IsPublish(r) /\ ~IsSSZ(req[r]))
        => LET log == calls[r]
               n == Len(log)
               a == Attempts(log, "unmarshalStrict")
               rejected(i) ==
                   IF ForkRank(log[i].arg) = 5
                   THEN i = n /\ pc[r] = "done" /\ Status(r) = 400 /\ blk[r] = NilBlk
                   ELSE IF i = n
                        THEN pc[r] = "decode" /\ resp[r] = <<>> /\ blk[r] = NilBlk
                        ELSE log[i + 1].op = "unmarshalStrict"
                             /\ ForkRank(log[i + 1].arg) = ForkRank(log[i].arg) + 1
           IN  /\ \A k \in 1..Len(a) : ForkRank(a[k]) = k
               /\ \A i \in CallsOf(r, "unmarshalStrict") :
                    /\ log[i].res = TRUE
                       => /\ req[r].body.wellFormed
                          /\ req[r].body.keys \subseteq KnownKeys(log[i].arg)
                          /\ i < n /\ log[i + 1].op = "validate.Struct"
                          /\ log[i + 1].arg = log[i].arg
                    /\ log[i].res = FALSE => rejected(i)
               /\ \A i \in CallsOf(r, "validate.Struct") :
                    /\ log[i].res = TRUE
                       => /\ i < n /\ log[i + 1].op = "ToGeneric"
                          /\ log[i + 1].arg = log[i].arg
                    /\ log[i].res = FALSE => rejected(i)
               /\ \A i \in CallsOf(r, "ToGeneric") :
                    /\ i > 2
                    /\ log[i - 1] = CallRec("validate.Struct", log[i].arg, TRUE)
                    /\ log[i - 2] = CallRec("unmarshalStrict", log[i].arg, TRUE)
               /\ blk[r] # NilBlk => Called(r, "ToGeneric")

C8_Witness ==
    \E r \in Running :
        /\ IsPublish(r) /\ ~IsSSZ(req[r])
        /\ \E i \in CallsOf(r, "validate.Struct") : calls[r][i].res = FALSE
        /\ \E i \in CallsOf(r, "unmarshalStrict") : calls[r][i].res = FALSE
        /\ Called(r, "ProposeBeaconBlock")

\* the body matches a schema of its endpoint, under the content type of the request
MatchesSome(q) ==
    \E k \in 1..Len(SchemaOrder(q.endpoint)) :
        LET v == SchemaOrder(q.endpoint)[k]
        IN  IF IsSSZ(q) THEN v \in q.body.ssz
            ELSE /\ q.body.wellFormed
                 /\ q.body.keys \subseteq KnownKeys(v)
                 /\ RequiredKeys(v) \subseteq q.body.keys

\* C9: a publish request (JSON or SSZ, either endpoint) that passed the sync
\* guard, whose body was read and matches none of the schemas, ends with 400
\* and the message "Body does not represent a valid block type"; neither the
\* gate, nor its collaborators, nor ProposeBeaconBlock are called.
C9_NoMatchIs400 ==
    \A r \in Running :
        (/\ IsPublish(r)
         /\ pc[r] = "done"
         /\ \E i \in CallsOf(r, "ReadAll") : calls[r][i].res = TRUE
         /\ ~MatchesSome(req[r]))
        => /\ Len(resp[r]) = 1
           /\ resp[r][1].code = 400
           /\ resp[r][1].msg = <<"Body does not represent a valid block type">>
           /\ \A op \in GateOps \cup {"validateBroadcast", "ProposeBeaconBlock"} : ~Called(r, op)

C9_Witness ==
    \E r \in Running :
        /\ req[r].endpoint = "blinded_blocks" /\ IsSSZ(req[r])
        /\ req[r].body.ssz = {}
        /\ Len(Attempts(calls[r], "UnmarshalSSZ")) = 5
        /\ Status(r) = 400
        /\ HasMessage(r, "Body does not represent a valid block type")

Phase0Shaped(q) == q.body.wellFormed /\ q.body.keys = {"message", "signature"}

AltairShaped(q) == q.body.wellFormed /\ q.body.keys = {"message", "signature", "sync_aggregate"}

\* C10: a Phase0-shaped JSON body is matched by no schema but Phase0's: the
\* Altair schema and the later ones do not take it, and the generic block
\* built and forwarded carries the Phase0 tag; an Altair-shaped body is not
\* taken by the Phase0 schema.
C10_Phase0OnlyMatchesPhase0 ==
    \A r \in Running :
        (IsPublish(r) /\ ~IsSSZ(req[r]))
        => /\ Phase0Shaped(req[r])
              => /\ \A i \in CallsOf(r, "ToGeneric") : calls[r][i].arg = "Phase0"
                 /\ \A i \in CallsOf(r, "validate.Struct") :
                       calls[r][i].arg # "Phase0" => calls[r][i].res = FALSE
                 /\ blk[r] # NilBlk => blk[r].tag = "Phase0"
                 /\ \A b \in Forwarded(r) : b.tag = "Phase0"
           /\ AltairShaped(req[r])
              => /\ \A i \in CallsOf(r, "ToGeneric") : calls[r][i].arg # "Phase0"
                 /\ \A i \in CallsOf(r, "unmarshalStrict") :
                       calls[r][i].arg = "Phase0" => calls[r][i].res = FALSE
                 /\ blk[r].tag # "Phase0"

C10_Witness ==
    \E r \in Running :
        /\ ~IsSSZ(req[r])
        /\ Phase0Shaped(req[r])
        /\ \E i \in CallsOf(r, "validate.Struct") :
              calls[r][i].arg = "Altair" /\ calls[r][i].res = FALSE
        /\ \E b \in Forwarded(r) : b.tag = "Phase0"

\* the schema whose UnmarshalSSZ accepted the body of r, if any
Selected(r) == {calls[r][i].arg : i \in {j \in CallsOf(r, "UnmarshalSSZ") : calls[r][j].res = TRUE}}

\* C11: dispatch is deterministic: for an SSZ payload that exactly one schema F
\* of the endpoint decodes, every request that carries it and gets past the
\* decode selects F and nothing else, the block it builds and forwards has the
\* tag F, and any two requests with that payload build the same generic block,
\* whatever other requests ran before, between or after them.
C11_DispatchDeterministic ==
    \A r \in Running :
        (IsPublish(r) /\ IsSSZ(req[r]) /\ Cardinality(req[r].body.ssz) = 1)
        => LET F == CHOOSE v \in req[r].body.ssz : TRUE
           IN  /\ Selected(r) \subseteq {F}
               /\ (pc[r] \in {"validateBroadcast", "propose"} \/ Called(r, "validateBroadcast"))
                  => Selected(r) = {F} /\ blk[r].tag = F
               /\ (pc[r] = "done" /\ Status(r) = 400) => Called(r, "UnmarshalSSZ")
               /\ \A b \in Forwarded(r) : b.tag = F
               /\ \A r2 \in Running :
                    (req[r2] = req[r] /\ blk[r] # NilBlk /\ blk[r2] # NilBlk)
                    => blk[r2] = blk[r]

C11_Witness ==
    \E r1, r2 \in Running :
        /\ r1 # r2
        /\ req[r1] = req[r2]
        /\ req[r1].body.ssz = {"Capella"}
        /\ highestReceived = 1
        /\ \E i \in CallsOf(r1, "ProposeBeaconBlock") :
              calls[r1][i].res = TRUE /\ calls[r1][i].arg.tag = "Capella"
        /\ \E i \in CallsOf(r2, "ProposeBeaconBlock") :
              calls[r2][i].res = FALSE /\ calls[r2][i].arg.tag = "Capella"

\* the schema the dispatcher matched: the one whose conversion succeeded
MatchedSchemas(r) ==
    {calls[r][i].arg : i \in {j \in CallsOf(r, "ToGeneric") \cup CallsOf(r, "migration") :
                                  calls[r][j].res = TRUE}}

\* the block type each variant of the union of generic signed blocks holds
VariantType(tag) ==
    CASE tag = "Phase0"           -> "SignedBeaconBlock"
      [] tag = "Altair"           -> "SignedBeaconBlockAltair"
      [] tag = "Bellatrix"        -> "SignedBeaconBlockBellatrix"
      [] tag = "BlindedBellatrix" -> "SignedBlindedBeaconBlockBellatrix"
      [] tag = "Capella"          -> "SignedBeaconBlockCapella"
      [] tag = "BlindedCapella"   -> "SignedBlindedBeaconBlockCapella"
      [] tag = "Deneb"            -> "SignedBeaconBlockAndBlobsDeneb"
      [] tag = "BlindedDeneb"     -> "SignedBlindedBeaconBlockAndBlobsDeneb"

\* C12: every generic signed block the dispatcher builds, from a JSON or an
\* SSZ body, carries the variant of the schema that matched, a schema of the
\* endpoint, and the block inside is of the type of that variant; the block
\* handed to the gate and to ProposeBeaconBlock is that block.
C12_TagIsMatchedSchema ==
    \A r \in Running :
        IsPublish(r)
        => /\ blk[r] # NilBlk
              => /\ MatchedSchemas(r) = {blk[r].tag}
                 /\ blk[r].tag \in SchemasOf(req[r].endpoint)
                 /\ blk[r].payload = VariantType(blk[r].tag)
           /\ \A i \in CallsOf(r, "validateBroadcast") \cup CallsOf(r, "ProposeBeaconBlock") :
                 /\ calls[r][i].arg.tag \in MatchedSchemas(r)
                 /\ calls[r][i].arg.payload = VariantType(calls[r][i].arg.tag)

C12_Witness ==
    \E r \in Running :
        /\ req[r].endpoint = "blinded_blocks" /\ ~IsSSZ(req[r])
        /\ req[r].body.keys = KnownKeys("BlindedCapella")
        /\ blk[r].tag = "BlindedCapella"
        /\ blk[r].payload = "SignedBlindedBeaconBlockCapella"
        /\ \E i \in CallsOf(r, "ProposeBeaconBlock") : calls[r][i].arg = blk[r]

\* validateBroadcast has returned nil for the block of r
GateReturnedNil(r) ==
    /\ Called(r, "validateBroadcast")
    /\ \A i \in 1..Len(calls[r]) : calls[r][i].op \in GateOps => GateCheckPassed(calls[r][i])
    /\ pc[r] \in {"propose", "done"}

\* C13: in every publish request ProposeBeaconBlock is called at most once;
\* it is called exactly once by the time the handler returns when the sync
\* check passed, the body matched a schema, the conversion succeeded and the
\* gate returned no error, and not at all otherwise; the block passed to it
\* is the block the dispatcher built and the gate and its collaborators saw.
C13_ProposeExactlyOnce ==
    \A r \in Running :
        IsPublish(r)
        => LET ps == CallsOf(r, "ProposeBeaconBlock")
               passed == /\ \E i \in CallsOf(r, "ValidateSyncHTTP") : calls[r][i].res = "synced"
                         /\ MatchedSchemas(r) # {}
                         /\ GateReturnedNil(r)
           IN  /\ Cardinality(ps) <= 1
               /\ (passed /\ pc[r] = "done") => Cardinality(ps) = 1
               /\ ~passed => ps = {}
               /\ \A i \in ps :
                    /\ i = Len(calls[r])
                    /\ calls[r][i].arg = blk[r]
                    /\ \A j \in CallsOf(r, "validateBroadcast") \cup
                                 CallsOf(r, "ExecuteStateTransition") :
                          calls[r][j].arg = calls[r][i].arg

C13_Witness ==
    \E r \in Running :
        /\ req[r].endpoint = "blinded_blocks" /\ IsSSZ(req[r])
        /\ req[r].policy = broadcastValidationConsensus
        /\ pc[r] = "done"
        /\ Called(r, "ExecuteStateTransition")
        /\ Cardinality(CallsOf(r, "ProposeBeaconBlock")) = 1
        /\ Status(r) = 500

\* the call a step of request r has just logged
Logged(r) == calls[r]'[Len(calls[r]')]

\* C14: the gate leaves the node state alone: a step that runs
\* validateBroadcast, the parent state lookup, the state transition or the
\* equivocation check, whatever the policy and whether the check passes or
\* fails, leaves the state store and the fork-choice store as they were; the
\* stores change only in a step that is a successful ProposeBeaconBlock call.
C14_GateLeavesNodeState ==
    [][/\ \A r \in Running :
            (Len(calls[r]') > Len(calls[r]) /\ Logged(r).op \in GateOps \cup {"validateBroadcast"})
            => nodeVars' = nodeVars
       /\ nodeVars' # nodeVars
          => \E r \in Running :
                /\ Len(calls[r]') > Len(calls[r])
                /\ Logged(r).op = "ProposeBeaconBlock" /\ Logged(r).res = TRUE]_vars

C14_Witness ==
    \E r \in Running :
        /\ req[r].policy = broadcastValidationConsensusAndEquivocation
        /\ pc[r] = "done"
        /\ GateTrace(r) = <<"State", "ExecuteStateTransition", "HighestReceivedBlockSlot">>
        /\ HasMessage(r, "equivocation validation failed")
        /\ highestReceived = blk[r].slot

\* the calls to collaborators of the node (not the decoders of the handler)
Collaborators == GateOps \cup {"ValidateSyncHTTP", "ReadAll", "ProposeBeaconBlock",
                               "GetBeaconBlock", "IsOptimistic"}

\* the entry of the log records a failure of its stage
StageFailed(c) ==
    CASE c.op \in {"ReadAll", "ToGeneric", "migration", "State", "ExecuteStateTransition",
                   "ProposeBeaconBlock", "GetBeaconBlock"} -> c.res = FALSE
      [] c.op = "ValidateSyncHTTP" -> c.res # "synced"
      [] c.op = "IsOptimistic" -> c.res # "verified"
      [] c.op = "HighestReceivedBlockSlot" -> c.res = c.arg
      [] OTHER -> FALSE

\* C15 as stated: no request writes more than one response (a handler that
\* returns without writing is answered 200 by the server); a failure of any
\* stage (body read, conversion, gate, downstream call, conversion or
\* validation of a produced block) ends the request at once with an error
\* response; no collaborator is called twice within a request.
C15_OneResponseEveryFailureSurfaced ==
    \A r \in Running :
        /\ Len(resp[r]) <= 1
        /\ \A i \in 1..Len(calls[r]) :
              StageFailed(calls[r][i])
              => i = Len(calls[r]) /\ pc[r] = "done" /\ resp[r][1].kind = "error"
        /\ (hdr[r].set /\ req[r].accept # "ssz" /\ ~(~got[r].proposerSlashings.isNil /\ got[r].valid))
           => /\ pc[r] = "done"
              /\ calls[r][Len(calls[r])].op = IF got[r].variant \in {"Phase0", "Altair"}
                                              THEN "GetBeaconBlock" ELSE "IsOptimistic"
              /\ resp[r] # <<>> /\ resp[r][1].kind = "error"
        /\ \A op \in Collaborators : Cardinality(CallsOf(r, op)) <= 1

\* the variants of the forks from Bellatrix on
PostMerge == Variants \ {"Phase0", "Altair"}

\* C16: on the production path, for a produced block of a fork from Bellatrix
\* on (full or blinded): when IsOptimistic returns true the response is 503,
\* when it returns an error the response is 500, and in both cases no block is
\* written and no header is set; a block of these forks is written only
\* after IsOptimistic has said that the node is not optimistic.
C16_OptimisticNodeServesNoBlock ==
    \A r \in Running :
        got[r].variant \in PostMerge
        => /\ \A i \in CallsOf(r, "IsOptimistic") :
                calls[r][i].res # "verified"
                => /\ pc[r] = "done"
                   /\ i = Len(calls[r])
                   /\ Len(resp[r]) = 1
                   /\ resp[r][1].kind = "error"
                   /\ resp[r][1].code = IF calls[r][i].res = "optimistic" THEN 503 ELSE 500
                   /\ hdr[r] = NoHdr
           /\ (hdr[r].set \/ \E k \in 1..Len(resp[r]) : resp[r][k].kind \in {"json", "ssz"})
              => \E i \in CallsOf(r, "IsOptimistic") : calls[r][i].res = "verified"
           /\ pc[r] = "done" => Called(r, "IsOptimistic")

C16_Witness ==
    \E r \in Running :
        /\ got[r].variant = "BlindedCapella"
        /\ calls[r][Len(calls[r])] = CallRec("IsOptimistic", "", "optimistic")
        /\ Status(r) = 503
        /\ pc[r] = "done"

IsProduce(r) == req[r].endpoint = "produce"

\* the randao_reveal parameter is absent, not hex, or hex of no bytes
BadRandao(q) == HexDecode(q.params.randao) = HexError \/ HexDecode(q.params.randao) = <<>>

RandaoMessages == {"unable to decode randao reveal",
                   "randao reveal is required as query parameters"}

\* C17: in ProduceBlockV3, with skip_randao_verification=true the randao
\* reveal passed to GetBeaconBlock is the point at infinity whatever the
\* randao_reveal parameter is (absent, empty, malformed or valid), and no
\* response complains about the randao reveal; when skip_randao_verification
\* is not "true", an absent, undecodable or empty randao_reveal is answered
\* with 400 and GetBeaconBlock is not called, and a reveal that decodes is
\* passed on as decoded.
C17_SkipRandaoUsesPointAtInfinity ==
    \A r \in Running :
        IsProduce(r)
        => LET q == req[r]
               slotOk == ParseUint(q.params.slot) # ParseError
               pastParams == pc[r] \in {"GetBeaconBlock", "IsOptimistic", "done"}
                             /\ CallRec("ValidateSyncHTTP", "", "synced") = calls[r][1]
           IN  /\ q.params.skip = "true"
                  => /\ \A i \in CallsOf(r, "GetBeaconBlock") :
                          calls[r][i].arg.randaoReveal = PointAtInfinity
                     /\ \A m \in RandaoMessages : ~HasMessage(r, m)
               /\ q.params.skip # "true"
                  => /\ \A i \in CallsOf(r, "GetBeaconBlock") :
                          /\ ~BadRandao(q)
                          /\ calls[r][i].arg.randaoReveal = HexDecode(q.params.randao)
                     /\ (BadRandao(q) /\ pastParams)
                        => /\ pc[r] = "done"
                           /\ Status(r) = 400
                           /\ ~Called(r, "GetBeaconBlock")
                           /\ slotOk => \E m \in RandaoMessages : HasMessage(r, m)

C17_Witness ==
    \E r \in Running :
        /\ IsProduce(r)
        /\ req[r].params.skip = "true"
        /\ req[r].params.randao = <<"a", "b">>
        /\ \E i \in CallsOf(r, "GetBeaconBlock") :
              calls[r][i].arg.randaoReveal = PointAtInfinity

\* C18 as stated: a production request without the graffiti parameter, with a
\* valid slot and a valid randao reveal, on a synced node, is served: once
\* the parameters are read it is at the GetBeaconBlock call or past it, and
\* it is not answered with 400.
C18_MissingGraffitiIsServed ==
    \A r \in Running :
        (/\ IsProduce(r)
         /\ req[r].params.graffiti = <<>>
         /\ ParseUint(req[r].params.slot) # ParseError
         /\ ~BadRandao(req[r])
         /\ pc[r] \in {"GetBeaconBlock", "IsOptimistic", "done"}
         /\ calls[r][1] = CallRec("ValidateSyncHTTP", "", "synced"))
        => /\ pc[r] = "GetBeaconBlock" \/ Called(r, "GetBeaconBlock")
           /\ Status(r) # 400

C20_RoundTrip ==
    \A r \in Running :
        /\ pc[r] = "wireAgain" => got[r] = req[r]
        /\ pc[r] = "internalAgain" => hdr[r] = blk[r]

\* the low byte first: byte i holds bits 8i..8i+7 of the number of digits d
RECURSIVE LittleEndian(_)
LittleEndian(d) ==
    IF \A i \in 1..Len(d) : d[i] = 0 THEN <<>>
    ELSE LET qr == DivStep(d)
         IN  <<qr.rem>> \o LittleEndian(qr.quot)

\* C21 as stated: for a decimal string of a number n below 2^256,
\* uint256ToHex returns 32 bytes that are the little-endian encoding of n:
\* the low byte first, the bytes above the number zero.
C21_Uint256IsLittleEndian ==
    \A r \in Running :
        (pc[r] = "generic" /\ "baseFeePerGas" \in DOMAIN blk[r]
           /\ AllDigits(req[r].baseFeePerGas))
        => LET n == [i \in 1..Len(req[r].baseFeePerGas) |-> DigitValue[req[r].baseFeePerGas[i]]]
               le == LittleEndian(n)
           IN  /\ Len(blk[r].baseFeePerGas) = 32
               /\ \A i \in 1..32 :
                    blk[r].baseFeePerGas[i] = IF i <= Len(le) THEN le[i] ELSE 0

\* 2^256 - 1 as a decimal string
MaxUint256Digits == <<"1", "1", "5", "7", "9", "2", "0", "8", "9", "2",
                    "3", "7", "3", "1", "6", "1", "9", "5", "4", "2",
                    "3", "5", "7", "0", "9", "8", "5", "0", "0", "8",
                    "6", "8", "7", "9", "0", "7", "8", "5", "3", "2",
                    "6", "9", "9", "8", "4", "6", "6", "5", "6", "4",
                    "0", "5", "6", "4", "0", "3", "9", "4", "5", "7",
                    "5", "8", "4", "0", "0", "7", "9", "1", "3", "1",
                    "2", "9", "6", "3", "9", "9", "3", "5">>

\* the string is a decimal number without a sign that is at most max
IsUnsignedUpTo(str, max) ==
    /\ str # <<>>
    /\ AllDigits(str)
    /\ LET t == StripZeros(str)
       IN  Len(t) < Len(max) \/ (Len(t) = Len(max) /\ ~DigitsGreater(t, max))

\* C22 as stated: a decimal field that is not an unsigned integer of the
\* width of its field (negative, not a number, empty, 2^64 or more for the
\* 64-bit slot, 2^256 or more for the 256-bit base fee) makes ToGeneric return
\* an error and no generic block.
C22_BadDecimalFails ==
    \A r \in Running :
        (/\ pc[r] = "generic"
         /\ \/ ~IsUnsignedUpTo(req[r].slot, MaxUint64Digits)
            \/ ~IsUnsignedUpTo(req[r].baseFeePerGas, MaxUint256Digits))
        => "tag" \in DOMAIN blk[r] /\ blk[r].tag = "error"

\* a publish request whose body spells the signature out as a hex string
HasSignature(r) == IsPublish(r) /\ "signature" \in DOMAIN req[r].body.block

\* C23 as stated: a signature is accepted by ToGeneric only if it is
\* 0x-prefixed and decodes to exactly the 96 bytes of a signature; a request
\* whose signature is a well-formed hex string of another length is never
\* handed to ProposeBeaconBlock and ends with 400.
C23_WrongLengthHexIsRefused ==
    \A r \in Running :
        (/\ HasSignature(r)
         /\ Called(r, "ToGeneric")
         /\ HexDecode(req[r].body.block.signature) # HexError
         /\ Len(HexDecode(req[r].body.block.signature)) # Len(PointAtInfinity))
        => /\ ~Called(r, "ProposeBeaconBlock")
           /\ \A i \in CallsOf(r, "ToGeneric") : ~calls[r][i].res
           /\ pc[r] = "done" => Status(r) = StatusBadRequest

\* the fields of the contents of request r that do not decode: sidecar
\* position (from 0, -1 for the block) and field name
BadFields(r) ==
    LET c == req[r]
        n == Len(c.signedBlobSidecars)
        undecoded(f, v) == IF f \in BlobHexFields THEN HexDecode(v) = HexError
                           ELSE ParseUint(v) = ParseError
    IN  {x \in (0..(n - 1)) \X (BlobHexFields \cup BlobUintFields) :
            undecoded(x[2], c.signedBlobSidecars[x[1] + 1][x[2]])}
        \cup (IF HexDecode(c.signedBlock.signature) = HexError
              THEN {<<-1, "signature">>} ELSE {})
        \cup (IF ParseUint(c.signedBlock.timestamp) = ParseError
              THEN {<<-1, "timestamp">>} ELSE {})

\* the message that names field x of the contents
NamingMessage(x) ==
    IF x[1] = -1
    THEN IF x[2] = "signature" THEN <<"could not decode signedBlock .Signature">>
         ELSE <<"could not decode signedBlock.Message.Body.ExecutionPayload.Timestamp">>
    ELSE CASE x[2] = "signature" -> <<"could not decode signedBlob.Signature">>
           [] x[2] = "blockRoot" -> <<"could not decode signedBlob.Message.BlockRoot at index %d", x[1]>>
           [] x[2] = "index" -> <<"could not decode signedBlob.Message.Index at index %d", x[1]>>
           [] x[2] = "slot" -> <<"could not decode signedBlob.Message.Slot at index %d", x[1]>>
           [] x[2] = "blockParentRoot" -> <<"could not decode signedBlob.Message.BlockParentRoot at index %d", x[1]>>
           [] x[2] = "proposerIndex" -> <<"could not decode signedBlob.Message.ProposerIndex at index %d", x[1]>>
           [] x[2] = "blob" -> <<"could not decode signedBlob.Message.Blob at index %d", x[1]>>
           [] x[2] = "kzgCommitment" -> <<"could not decode signedBlob.Message.KzgCommitment at index %d", x[1]>>
           [] x[2] = "kzgProof" -> <<"could not decode signedBlob.Message.KzgProof at index %d", x[1]>>

\* C24 as stated: when exactly one field of the Deneb block contents does not
\* decode, the conversion fails with the message that names that field (and
\* the position of its sidecar) and no other field.
C24_ErrorNamesTheFailedField ==
    \A r \in Running :
        (pc[r] = "generic" /\ "signedBlobSidecars" \in DOMAIN req[r]
           /\ Cardinality(BadFields(r)) = 1)
        => /\ "tag" \in DOMAIN blk[r] /\ blk[r].tag = "error"
           /\ \A x \in BadFields(r) : blk[r].root = NamingMessage(x)

\* C25 as stated: the conversion of a produced block to its wire form is
\* total: whatever variant GetBeaconBlock returned and whether its operation
\* lists are empty or unset, convertInternal* returns a wire block and no
\* error, and the JSON production path answers no 500 for the conversion.
C25_InternalToWireIsTotal ==
    \A r \in Running :
        (IsProduce(r) /\ hdr[r].set /\ req[r].accept # "ssz")
        => /\ convertInternalBeaconBlock(got[r]).err = ""
           /\ convertInternalBeaconBlock(got[r]).block # "nil"
           /\ \A i \in 1..Len(resp[r]) :
                 resp[r][i].code = StatusInternalServerError
                 => resp[r][i].msg # <<convertInternalProposerSlashings(NilSlice).err>>

\* the request has ended with status code and a message that has part
EndedWith(r, code, part) == Status(r) = code /\ HasMessage(r, part)

\* the produced block of request r was refused by the struct validator after
\* its conversion
ProducedBlockInvalid(r) ==
    /\ IsProduce(r) /\ hdr[r].set /\ req[r].accept # "ssz"
    /\ convertInternalBeaconBlock(got[r]).err = ""
    /\ ~got[r].valid

\* the terminal errors of C26 with the statuses the claim gives them
C26_RpcFailuresAre500 ==
    \A r \in Running : \A i \in 1..Len(calls[r]) :
        /\ (pc[r] = "done" /\ calls[r][i].op = "ProposeBeaconBlock" /\ ~calls[r][i].res)
           => EndedWith(r, StatusInternalServerError, "ProposeBeaconBlock failed")
        /\ (pc[r] = "done" /\ calls[r][i].op = "GetBeaconBlock" /\ ~calls[r][i].res)
           => EndedWith(r, StatusInternalServerError, "GetBeaconBlock failed")

C26_RequestFailuresAre400 ==
    \A r \in Running :
        (pc[r] = "done" /\ IsPublish(r))
        => /\ \A i \in 1..Len(calls[r]) :
                 (calls[r][i].op \in {"ToGeneric", "migration"} \cup GateOps
                    /\ StageFailed(calls[r][i]))
                 => Status(r) = StatusBadRequest
           /\ (Called(r, "ReadAll") /\ ~StageFailed(calls[r][CHOOSE i \in CallsOf(r, "ReadAll") : TRUE])
                 /\ ~Called(r, "ToGeneric") /\ ~Called(r, "migration"))
              => EndedWith(r, StatusBadRequest, NoMatchMessage)

C26_RefusalsAre503 ==
    \A r \in Running : \A i \in 1..Len(calls[r]) :
        (pc[r] = "done"
           /\ \/ calls[r][i].op = "ValidateSyncHTTP" /\ calls[r][i].res = "syncing"
              \/ calls[r][i].op = "IsOptimistic" /\ calls[r][i].res = "optimistic")
        => Status(r) = StatusServiceUnavailable

\* C26 as stated: a failed ProposeBeaconBlock or GetBeaconBlock is answered
\* with 500 and the error of the call; decode, conversion and gate failures
\* are answered with 400; sync and optimistic refusals with 503; and no
\* failure of any stage is answered with a 2xx status.
C26_StatusOfTerminalErrors ==
    /\ C26_RpcFailuresAre500
    /\ C26_RequestFailuresAre400
    /\ C26_RefusalsAre503
    /\ \A r \in Running :
          (pc[r] = "done"
             /\ \/ \E i \in 1..Len(calls[r]) : StageFailed(calls[r][i])
                \/ ProducedBlockInvalid(r))
          => Status(r) \notin 200..299

\* the variants that hold a blinded block
BlindedVariants == {"BlindedBellatrix", "BlindedCapella", "BlindedDeneb"}

\* the name of the fork of a variant
ForkName(v) ==
    CASE v = "Phase0" -> "phase0"
      [] v = "Altair" -> "altair"
      [] v \in {"Bellatrix", "BlindedBellatrix"} -> "bellatrix"
      [] v \in {"Capella", "BlindedCapella"} -> "capella"
      [] v \in {"Deneb", "BlindedDeneb"} -> "deneb"

\* C27 as stated: in a JSON production response the version is the fork of
\* the variant GetBeaconBlock returned, execution_payload_blinded is true
\* exactly when that variant is a blinded one, and the data is the conversion
\* of the block of that variant.
C27_MetadataMatchesVariant ==
    \A r \in Running : \A i \in 1..Len(resp[r]) :
        (IsProduce(r) /\ resp[r][i].kind = "json")
        => /\ resp[r][i].version = ForkName(got[r].variant)
           /\ resp[r][i].blinded = (got[r].variant \in BlindedVariants)
           /\ resp[r][i].data = convertInternalBeaconBlock(got[r]).block

\* the entry of the log records that the conversion of a matched body or a
\* check of the gate failed
MatchedThenFailed(c) ==
    \/ c.op \in {"ToGeneric", "migration"} /\ ~c.res
    \/ c.op \in GateOps /\ ~GateCheckPassed(c)

\* C28: once a publish body has matched a schema, a failure of ToGeneric, of
\* the migration or of a check of the gate is the last thing the request
\* does: in every state that follows, the request has ended with the single
\* response 400, no schema was tried after the failure and
\* ProposeBeaconBlock was not called.
C28_FailureAfterMatchEndsWith400 ==
    \A r \in Running : \A i \in 1..Len(calls[r]) :
        (IsPublish(r) /\ MatchedThenFailed(calls[r][i]))
        => /\ i = Len(calls[r])
           /\ pc[r] = "done"
           /\ Len(resp[r]) = 1 /\ Status(r) = StatusBadRequest
           /\ ~Called(r, "ProposeBeaconBlock")

\* a JSON body matched a schema that is not the last of its order and its
\* conversion failed
C28_Witness ==
    \E r \in Running :
        /\ IsPublish(r) /\ calls[r] # <<>>
        /\ calls[r][Len(calls[r])].op = "ToGeneric" /\ ~calls[r][Len(calls[r])].res
        /\ idx[r] < Len(SchemaOrder(req[r].endpoint))
        /\ pc[r] = "done" /\ Status(r) = StatusBadRequest

\* the broadcast_validation values that name a policy
KnownPolicies == {broadcastValidationConsensus, broadcastValidationConsensusAndEquivocation}

\* C29: a broadcast_validation value that is not exactly "consensus" or
\* "consensus_and_equivocation" (absent or empty, or in another case) is
\* policy none: once validateBroadcast has run, no collaborator of the gate
\* was called, the request goes on to ProposeBeaconBlock with the same block,
\* and it is not answered 400.
C29_UnknownPolicyIsNone ==
    \A r \in Running :
        (IsPublish(r) /\ req[r].policy \notin KnownPolicies /\ Called(r, "validateBroadcast"))
        => /\ \A i \in 1..Len(calls[r]) : calls[r][i].op \notin GateOps
           /\ pc[r] \in {"propose", "done"}
           /\ pc[r] = "done"
              => /\ \E i \in CallsOf(r, "ProposeBeaconBlock") : calls[r][i].arg = blk[r]
                 /\ calls[r][Len(calls[r]) - 1].op = "validateBroadcast"
                 /\ Status(r) # StatusBadRequest

\* a request with broadcast_validation=Consensus was forwarded and answered 200
C29_Witness ==
    \E r \in Running :
        /\ IsPublish(r) /\ req[r].policy = "Consensus"
        /\ pc[r] = "done" /\ Called(r, "ProposeBeaconBlock") /\ Status(r) = StatusOK
        /\ highestReceived = blk[r].slot

\* the production request r went past the sync check and the validation of
\* its query parameters
PassedParameters(r) ==
    /\ IsProduce(r)
    /\ pc[r] \in {"IsOptimistic", "done"}
    /\ \E i \in CallsOf(r, "ValidateSyncHTTP") : calls[r][i].res = "synced"
    /\ Status(r) # StatusBadRequest

\* GetBeaconBlock returned a Phase0 or Altair block to the JSON request r that
\* convertInternal* converts and the struct validator accepts
ServablePreMerge(r) ==
    /\ IsProduce(r) /\ req[r].accept # "ssz"
    /\ got[r].variant \in {"Phase0", "Altair"}
    /\ convertInternalBeaconBlock(got[r]).err = ""
    /\ got[r].valid

\* C30: on the production path IsOptimistic is called only after a
\* GetBeaconBlock call that returned a block; a Phase0 or Altair block that
\* converts and validates is served with 200 and IsOptimistic is not called;
\* GetBeaconBlock is called at most once, and exactly once by a request that
\* went past the validation of its parameters.
C30_OptimisticOnlyAfterProduction ==
    \A r \in Running :
        IsProduce(r)
        => /\ \A i \in CallsOf(r, "IsOptimistic") :
                 \E j \in CallsOf(r, "GetBeaconBlock") : j < i /\ calls[r][j].res
           /\ ServablePreMerge(r)
              => /\ pc[r] = "done" /\ ~Called(r, "IsOptimistic")
                 /\ Len(resp[r]) = 1 /\ resp[r][1].kind = "json" /\ resp[r][1].code = StatusOK
                 /\ resp[r][1].data = convertInternalBeaconBlock(got[r]).block
           /\ Cardinality(CallsOf(r, "GetBeaconBlock")) <= 1
           /\ PassedParameters(r) => Cardinality(CallsOf(r, "GetBeaconBlock")) = 1

\* a Phase0 block was served to a JSON request without the optimistic check
C30_Witness ==
    \E r \in Running :
        /\ ServablePreMerge(r) /\ got[r].variant = "Phase0"
        /\ pc[r] = "done" /\ Status(r) = StatusOK /\ ~Called(r, "IsOptimistic")
        /\ Cardinality(CallsOf(r, "GetBeaconBlock")) = 1
====
